---- MODULE Spec2Model ----
(***************************************************************************)
(* Verification model of the 2D drawing engine of konkan-house             *)
(* (src/svg_2d.py) and of the geometry helpers it shares with the 3D       *)
(* library (src/konkan_house_lib.py, src/konkan_house_lib_old.py).         *)
(*                                                                         *)
(* Numbers.  The program computes with Python floats.  The model uses      *)
(* fixed point: every length and coordinate is an integer number of        *)
(* thousandths of an input unit, so 5.0 units is 5000, the 0.01 test of    *)
(* extract_floor_edges is 10, and round(v, 2) is a real rounding to a      *)
(* multiple of 10.                                                         *)
(*                                                                         *)
(* Each generator of the program is a synchronous, single-threaded call.   *)
(* A call is modelled by one action that takes the model from pc = "start" *)
(* (inputs chosen) to pc = "done" (result computed); there is one          *)
(* specification per entry point.                                          *)
(***************************************************************************)
EXTENDS Integers, Sequences, FiniteSets, TLC

VARIABLES
    pc,             \* "start": inputs chosen, "done": the call has returned
    edges,          \* assign_dimension_offset_levels: its `edges` argument
    is_horizontal,  \* assign_dimension_offset_levels: its `is_horizontal` argument
    edge_levels,    \* assign_dimension_offset_levels: the returned dict
    floor_config,   \* a floor's 'objects' list (extract_floor_edges, generate_floor_plan_svg)
    floor_edges,    \* extract_floor_edges: the returned {'horizontal', 'vertical'} dicts
    GLOBAL_CONFIG,  \* config.GLOBAL_CONFIG as get_floor_z_offset reads it
    z_offsets,      \* floor number -> result of get_floor_z_offset(floor number)
    view_type,      \* generate_elevation_view: its `view_type` argument
    house_config,   \* generate_elevation_view: its `house_config` argument
    all_objects_to_draw,  \* generate_elevation_view: the list it draws from
    svg,            \* generate_elevation_view: the elements written, in order
    output_path,    \* generate_elevation_view: its `output_path` argument
    output_dir_exists,  \* whether the directory of output_path exists
    files,          \* the files written by generate_elevation_view, in order
    plan_svg,       \* generate_floor_plan_svg: the elements written, in order
    room_config,    \* a room object of a floor's 'objects' list
    room_floor,     \* the number of the floor the room object is on
    room_done,      \* which of svg_draw_room / create_room have been called for it
    room_svg,       \* svg_draw_room: the wall shapes written, in order
    created_walls,  \* create_room (konkan_house_lib.py): the returned list
    created_walls_old  \* create_room (konkan_house_lib_old.py): the returned list

packVars == <<edges, is_horizontal, edge_levels>>
edgeVars == <<floor_edges>>
zVars == <<z_offsets>>
elevVars == <<view_type, house_config, all_objects_to_draw, svg, output_path,
              output_dir_exists, files>>
planVars == <<plan_svg>>
roomVars == <<room_config, room_floor, room_done, room_svg, created_walls, created_walls_old>>
vars == <<pc, GLOBAL_CONFIG, floor_config, packVars, edgeVars, zVars, elevVars, planVars,
          roomVars>>

(***************************************************************************)
(* Generic helpers                                                         *)
(***************************************************************************)
Min(a, b) == IF a <= b THEN a ELSE b
Max(a, b) == IF a >= b THEN a ELSE b
Abs(a) == IF a >= 0 THEN a ELSE -a

\* Python's tuple comparison (a1, a2) <= (b1, b2)
PairLe(a1, a2, b1, b2) == a1 < b1 \/ (a1 = b1 /\ a2 <= b2)

\* Python's list.sort / sorted with a two-component key: a stable sort of a
\* sequence of records [key |-> <<k1, k2>>, val |-> element].  Each element
\* is inserted after the last element whose key is not larger.
KeyLe(a, b) == PairLe(a[1], a[2], b[1], b[2])

StableInsert(t, x) ==
    LET p == Cardinality({j \in 1..Len(t) : KeyLe(t[j].key, x.key)})
    IN SubSeq(t, 1, p) \o <<x>> \o SubSeq(t, p + 1, Len(t))

StableSort(s) ==
    LET f[i \in 0..Len(s)] ==
            IF i = 0 THEN <<>> ELSE StableInsert(f[i - 1], s[i])
    IN f[Len(s)]

Vals(s) == [i \in 1..Len(s) |-> s[i].val]

(***************************************************************************)
(* normalize_edge_key (svg_2d.py 303-318)                                  *)
(***************************************************************************)
\* round(v, 2) on thousandths: to the nearest multiple of 10.  A value that
\* lies exactly half way is rounded to the even hundredth, which is what
\* Python does when the float is exactly representable.
Round2(v) ==
    LET q == v \div 10
        r == v % 10
    IN IF r < 5 THEN 10 * q
       ELSE IF r > 5 THEN 10 * (q + 1)
       ELSE IF q % 2 = 0 THEN 10 * q ELSE 10 * (q + 1)

\* the key built from the endpoints in their declared order
normalize_edge_key_declared(x1, y1, x2, y2) ==
    <<Round2(x1), Round2(y1), Round2(x2), Round2(y2)>>

normalize_edge_key(x1, y1, x2, y2) ==
    IF PairLe(x1, y1, x2, y2)
    THEN <<Round2(x1), Round2(y1), Round2(x2), Round2(y2)>>
    ELSE <<Round2(x2), Round2(y2), Round2(x1), Round2(y1)>>

EdgeKey(e) == normalize_edge_key(e.x1, e.y1, e.x2, e.y2)

(***************************************************************************)
(* assign_dimension_offset_levels (svg_2d.py 417-482)                      *)
(***************************************************************************)
GapTolerance == 5000

\* the sort key of line 437 / 439: the edge's first and second coordinate on
\* the spanning axis, as declared
PackSortKey(e, h) == IF h THEN <<e.x1, e.x2>> ELSE <<e.y1, e.y2>>

SortedEdges(es, h) ==
    Vals(StableSort([i \in 1..Len(es) |-> [key |-> PackSortKey(es[i], h), val |-> es[i]]]))

\* lines 448-453
EdgeStart(e, h) == IF h THEN Min(e.x1, e.x2) ELSE Min(e.y1, e.y2)
EdgeEnd(e, h) == IF h THEN Max(e.x1, e.x2) ELSE Max(e.y1, e.y2)

\* line 463: the overlap test against one occupied range <<start, end>>
RangeOverlapsNoGap(s, e, r) == s < r[2] /\ e > r[1]
RangeOverlaps(s, e, r) ==
    s < r[2] + GapTolerance /\ e > r[1] - GapTolerance

\* lines 459-465: does the edge overlap any range of the level
LevelOverlaps(ranges, s, e) ==
    \E i \in 1..Len(ranges) : RangeOverlaps(s, e, ranges[i])

\* lines 456-476: the first level that works, else a new level.  Levels are
\* numbered from 0 as in the code; levels[i + 1] holds level i.
ChooseLevel(levels, s, e) ==
    LET free == {i \in 1..Len(levels) : ~LevelOverlaps(levels[i], s, e)}
    IN IF free = {} THEN Len(levels)
       ELSE (CHOOSE i \in free : \A j \in free : i <= j) - 1

PlaceRange(levels, lvl, s, e) ==
    IF lvl = Len(levels) THEN Append(levels, <<<<s, e>>>>)
    ELSE [levels EXCEPT ![lvl + 1] = Append(@, <<s, e>>)]

\* dict assignment d[k] = v
DictPut(d, k, v) == [x \in DOMAIN d \cup {k} |-> IF x = k THEN v ELSE d[x]]

EmptyDict == [x \in {} |-> 0]

\* the loop of lines 446-480 over the sorted edges; the loop state is the
\* pair (levels, edge_levels)
PackLoop(sorted, h) ==
    LET f[i \in 0..Len(sorted)] ==
            IF i = 0 THEN [levels |-> <<>>, edge_levels |-> EmptyDict]
            ELSE LET st == f[i - 1]
                     e == sorted[i]
                     s == EdgeStart(e, h)
                     t == EdgeEnd(e, h)
                     lvl == ChooseLevel(st.levels, s, t)
                 IN [levels |-> PlaceRange(st.levels, lvl, s, t),
                     edge_levels |-> DictPut(st.edge_levels, EdgeKey(e), lvl)]
    IN f[Len(sorted)]

assign_dimension_offset_levels(es, h) ==
    IF es = <<>> THEN EmptyDict
    ELSE PackLoop(SortedEdges(es, h), h).edge_levels

(***************************************************************************)
(* extract_floor_edges (svg_2d.py 321-377)                                 *)
(*                                                                         *)
(* A Python dict keeps its keys in insertion order and an assignment to an *)
(* existing key replaces the value in place.  The two edge dicts are       *)
(* modelled as sequences of entries [key, val] with that behaviour, so      *)
(* that .values() is the sequence of the vals.                              *)
(***************************************************************************)
OKeys(d) == {d[i].key : i \in 1..Len(d)}

OPut(d, k, v) ==
    IF k \in OKeys(d)
    THEN [i \in 1..Len(d) |-> IF d[i].key = k THEN [key |-> k, val |-> v] ELSE d[i]]
    ELSE Append(d, [key |-> k, val |-> v])

OGet(d, k) == d[CHOOSE i \in 1..Len(d) : d[i].key = k].val

OValues(d) == [i \in 1..Len(d) |-> d[i].val]

\* Names are sequences of tokens: the string "Hall_North" is <<"Hall", "North">>,
\* and f"{room}_{direction}" appends a token to the room's name.

\* str.lower() on the direction names a configuration may use
Lower(w) ==
    CASE w = "North" -> "north"
      [] w = "South" -> "south"
      [] w = "East" -> "east"
      [] w = "West" -> "west"
      [] OTHER -> w

\* obj.get('walls', [all four]) lowered, as a set for the `in` tests
RoomWalls(obj) ==
    LET walls == IF "walls" \in DOMAIN obj THEN obj.walls
                 ELSE <<"north", "south", "east", "west">>
    IN {Lower(walls[i]) : i \in 1..Len(walls)}

Edge(x1, y1, x2, y2, src) ==
    [x1 |-> x1, y1 |-> y1, x2 |-> x2, y2 |-> y2, source |-> src]

PutEdge(d, e) == OPut(d, EdgeKey(e), e)

\* lines 338-363: the outer boundary lines of a room's declared sides
RoomEdges(es, obj) ==
    LET x == obj.x
        y == obj.y
        w == obj.width
        h == obj.length
        ws == RoomWalls(obj)
        h1 == IF "north" \in ws
              THEN PutEdge(es.horizontal, Edge(x, y, x + w, y, obj.name \o <<"North">>))
              ELSE es.horizontal
        h2 == IF "south" \in ws
              THEN PutEdge(h1, Edge(x, y + h, x + w, y + h, obj.name \o <<"South">>))
              ELSE h1
        v1 == IF "east" \in ws
              THEN PutEdge(es.vertical, Edge(x + w, y, x + w, y + h, obj.name \o <<"East">>))
              ELSE es.vertical
        v2 == IF "west" \in ws
              THEN PutEdge(v1, Edge(x, y, x, y + h, obj.name \o <<"West">>))
              ELSE v1
    IN [horizontal |-> h2, vertical |-> v2]

\* lines 370 and 373: abs(d) < 0.01
WallIsHorizontal(obj) == Abs(obj.end_y - obj.start_y) < 10
WallIsVertical(obj) == Abs(obj.end_x - obj.start_x) < 10

\* which of the two dicts a standalone wall is written to (lines 370-375)
WallKind(obj) ==
    IF WallIsHorizontal(obj) THEN "horizontal"
    ELSE IF WallIsVertical(obj) THEN "vertical"
    ELSE "none"

\* lines 365-375: a standalone wall keeps its declared endpoint order
WallEdges(es, obj) ==
    LET e == Edge(obj.start_x, obj.start_y, obj.end_x, obj.end_y, obj.name)
    IN IF WallKind(obj) = "horizontal"
       THEN [es EXCEPT !.horizontal = PutEdge(@, e)]
       ELSE IF WallKind(obj) = "vertical"
       THEN [es EXCEPT !.vertical = PutEdge(@, e)]
       ELSE es

EmptyEdges == [horizontal |-> <<>>, vertical |-> <<>>]

extract_floor_edges(objs) ==
    LET f[i \in 0..Len(objs)] ==
            IF i = 0 THEN EmptyEdges
            ELSE IF objs[i].type = "room" THEN RoomEdges(f[i - 1], objs[i])
            ELSE IF objs[i].type = "wall" THEN WallEdges(f[i - 1], objs[i])
            ELSE f[i - 1]
    IN f[Len(objs)]

(***************************************************************************)
(* get_floor_z_offset (konkan_house_lib.py, and the same text in           *)
(* konkan_house_lib_old.py).  units_to_meters_ratio is in ten-thousandths, *)
(* scale_factor in tenths, so a result is in 10^-8 metres.                 *)
(***************************************************************************)
DefaultFloorHeight == 10000

DefaultGlobalConfig ==
    [units_to_meters_ratio |-> 3048, scale_factor |-> 10,
     floor_heights |-> (0 :> 10000 @@ 1 :> 9000 @@ 2 :> 8000),
     ground_level_z |-> 0,
     wall_thickness |-> 670, floor_slab_thickness |-> 330, plinth_height |-> 1500,
     dimensions |->
        [show_outer_dimensions |-> TRUE, show_inner_dimensions |-> TRUE,
         show_room_dimensions |-> TRUE, show_opening_dimensions |-> TRUE,
         dimension_offset |-> 30000, dimension_offset_increment |-> 20000,
         inner_dimension_offset |-> 15000, opening_dimension_offset |-> 8000,
         min_dimension_length |-> 20000],
     elevation_rendering_priority |->
        [beam |-> 0, floor_slab |-> 1, room |-> 2, wall |-> 2, pillar |-> 3]]

to_meters(cfg, value) == value * cfg.units_to_meters_ratio * cfg.scale_factor

\* a floor missing from floor_heights counts as 0 high
FloorWallHeightNoDefault(cfg, floor) ==
    IF floor \in DOMAIN cfg.floor_heights THEN cfg.floor_heights[floor] ELSE 0

\* the wall height the loop adds for one floor
FloorWallHeight(cfg, floor) ==
    IF floor \in DOMAIN cfg.floor_heights THEN cfg.floor_heights[floor]
    ELSE IF 0 \in DOMAIN cfg.floor_heights THEN cfg.floor_heights[0]
    ELSE DefaultFloorHeight

\* z_offset after the loop over range(floor_number); range of a negative
\* number is empty
RECURSIVE ZLoop(_, _)
ZLoop(cfg, floor_number) ==
    IF floor_number <= 0 THEN cfg.plinth_height
    ELSE ZLoop(cfg, floor_number - 1) + cfg.floor_slab_thickness
         + FloorWallHeight(cfg, floor_number - 1)

get_floor_z_offset(cfg, floor_number) == to_meters(cfg, ZLoop(cfg, floor_number))

(***************************************************************************)
(* generate_elevation_view (svg_2d.py 1400-2312): the objects of all       *)
(* floors are collected with a depth, sorted and drawn.  A configuration   *)
(* object is a record that has exactly the keys its dict has.              *)
(***************************************************************************)
Has(o, k) == k \in DOMAIN o

\* dict.get(k, d)
Get(o, k, d) == IF k \in DOMAIN o THEN o[k] ELSE d

\* GLOBAL_CONFIG['floor_heights'].get(floor_num, 100)
ElevFloorHeight(cfg, floor_num) == Get(cfg.floor_heights, floor_num, 100000)

\* type_priority.get(t, d)
TypePriority(cfg, t, d) == Get(cfg.elevation_rendering_priority, t, d)

z_to_y(total_height, z) == total_height - z

\* no mirroring: the coordinate as it is in every view
world_to_svg_x_unmirrored(view, width, coord, obj_width) ==
    coord

world_to_svg_x(view, width, coord, obj_width) ==
    IF view \in {"front", "right"} THEN width - (coord + obj_width)
    ELSE coord

\* width of the view: the plinth's X extent in front/back, Y extent in left/right
ViewWidth(view, house) ==
    IF view \in {"front", "back"} THEN Get(house.plinth, "width", 0)
    ELSE Get(house.plinth, "length", 0)

PlinthHeight(cfg, house) == Get(house.plinth, "height", cfg.plinth_height)

\* total_height of a house without a gable roof
TotalHeight(cfg, house) ==
    LET f[i \in 0..Len(house.floors)] ==
            IF i = 0 THEN PlinthHeight(cfg, house)
            ELSE f[i - 1] + ElevFloorHeight(cfg, house.floors[i].floor_number)
    IN f[Len(house.floors)]

\* current_z when the loop reaches the floor at index i: every earlier floor
\* adds its wall_top - current_z = slab_thickness + floor_height
CurrentZ(cfg, house, i) ==
    LET f[j \in 1..i] ==
            IF j = 1 THEN PlinthHeight(cfg, house)
            ELSE f[j - 1] + cfg.floor_slab_thickness
                 + ElevFloorHeight(cfg, house.floors[j - 1].floor_number)
    IN f[i]

\* the depth of the first pass over a floor's objects
FirstPassDepth(view, obj) ==
    IF obj.type \in {"floor_slab", "beam", "staircase", "room", "pillar"}
    THEN CASE view = "front" -> Get(obj, "y", 0)
           [] view = "back" -> -Get(obj, "y", 0)
           [] view = "left" -> Get(obj, "x", 0)
           [] OTHER -> -Get(obj, "x", 0)
    ELSE IF obj.type = "wall"
    THEN CASE view = "front" -> Min(Get(obj, "start_y", 0), Get(obj, "end_y", 0))
           [] view = "back" -> -Max(Get(obj, "start_y", 0), Get(obj, "end_y", 0))
           [] view = "left" -> Min(Get(obj, "start_x", 0), Get(obj, "end_x", 0))
           [] OTHER -> -Max(Get(obj, "start_x", 0), Get(obj, "end_x", 0))
    ELSE 0

\* floor_objects_with_depth after its sort: doors and windows are left out;
\* each element remembers its index in the floor's 'objects' list
FloorObjectsWithDepth(view, cfg, objs) ==
    LET idx == SelectSeq([i \in 1..Len(objs) |-> i],
                         LAMBDA i : objs[i].type \notin {"door", "window"})
    IN Vals(StableSort([n \in 1..Len(idx) |->
            [key |-> <<FirstPassDepth(view, objs[idx[n]]),
                       TypePriority(cfg, objs[idx[n]].type, 2)>>,
             val |-> [obj |-> objs[idx[n]], index |-> idx[n]]]]))

\* the key under which wall_openings files a door or window
OpeningHasKey(o) == Has(o, "room") \/ Has(o, "wall_name") \/ Has(o, "wall")

\* None as a dict key: a name no object has
NoneName == <<"None", "">>

OpeningKey(o) ==
    IF Has(o, "room") THEN o.room \o <<Lower(Get(o, "direction", ""))>>
    ELSE IF Has(o, "wall_name") /\ o.wall_name # <<>> THEN o.wall_name
    ELSE Get(o, "wall", NoneName)

\* every door and window of the floor, whatever wall it names
WallOpeningsUnkeyed(objs, key) ==
    SelectSeq(objs, LAMBDA o : o.type \in {"door", "window"})

\* wall_openings.get(key, [])
WallOpenings(objs, key) ==
    SelectSeq(objs, LAMBDA o : /\ o.type \in {"door", "window"}
                               /\ OpeningHasKey(o)
                               /\ OpeningKey(o) = key)

\* The entries one configuration object adds to objects_to_draw.  fl is the
\* floor being collected: its index in 'floors', its 'objects', floor_height,
\* slab_z and wall_z.  `origin` records where the entry comes from: floor
\* index, index in the floor's 'objects', index in the room's 'walls'.
SlabEntry(view, cfg, fl, obj, i) ==
    LET horiz == view \in {"front", "back"}
    IN <<[type |-> "floor_slab", name |-> <<"Slab">> \o Get(obj, "name", <<>>),
          depth |-> CASE view = "left" -> -obj.x
                      [] view = "right" -> obj.x + obj.width
                      [] view = "front" -> -obj.y
                      [] OTHER -> obj.y + obj.length,
          priority |-> TypePriority(cfg, "floor_slab", 1),
          x |-> IF horiz THEN obj.x ELSE obj.y,
          width |-> IF horiz THEN obj.width ELSE obj.length,
          height |-> Get(obj, "thickness", cfg.floor_slab_thickness),
          z |-> fl.slab_z, origin |-> <<fl.index, i, 0>>]>>

BeamEntry(view, cfg, fl, obj, i) ==
    LET horiz == view \in {"front", "back"}
        beam_size == Get(cfg, "beam_size", 8000)
        beam_width == Get(obj, "width", beam_size)
        beam_length == Get(obj, "length", beam_size)
        orient == Get(obj, "orientation", "horizontal")
        visible == IF horiz THEN orient \in {"horizontal", "ew"}
                   ELSE orient \in {"horizontal", "ns"}
    IN IF ~visible THEN <<>>
       ELSE <<[type |-> "beam", name |-> <<"Beam">> \o Get(obj, "name", <<>>),
               depth |-> CASE view = "left" -> -obj.x
                           [] view = "right" -> obj.x + beam_width
                           [] view = "front" -> -obj.y
                           [] OTHER -> obj.y + beam_length,
               priority |-> TypePriority(cfg, "beam", 0),
               x |-> IF horiz THEN obj.x ELSE obj.y,
               width |-> IF horiz THEN beam_width ELSE beam_length,
               height |-> Get(obj, "height", beam_size),
               z |-> fl.slab_z, origin |-> <<fl.index, i, 0>>]>>

\* x, y, width, length and num_steps of a staircase in either format
StairBox(obj) ==
    IF Has(obj, "start_x")
    THEN LET n == Get(obj, "num_steps", 10)
             run == n * Get(obj, "step_tread", 10000)
             sw == Get(obj, "step_width", 30000)
             dir == Get(obj, "direction", "north")
         IN CASE dir = "north" -> [x |-> obj.start_x, y |-> obj.start_y - run,
                                   width |-> sw, length |-> run, num_steps |-> n]
              [] dir = "south" -> [x |-> obj.start_x, y |-> obj.start_y,
                                   width |-> sw, length |-> run, num_steps |-> n]
              [] dir = "east" -> [x |-> obj.start_x, y |-> obj.start_y,
                                  width |-> run, length |-> sw, num_steps |-> n]
              [] OTHER -> [x |-> obj.start_x - run, y |-> obj.start_y,
                           width |-> run, length |-> sw, num_steps |-> n]
    ELSE [x |-> obj.x, y |-> obj.y, width |-> obj.width, length |-> obj.length,
          num_steps |-> IF Has(obj, "num_steps") THEN obj.num_steps
                        ELSE Max(3, obj.length \div 10000)]

StairEntry(view, cfg, fl, obj, i) ==
    LET horiz == view \in {"front", "back"}
        b == StairBox(obj)
    IN <<[type |-> "staircase", name |-> <<"Stair">> \o Get(obj, "name", <<>>),
          depth |-> CASE view = "left" -> -b.x
                      [] view = "right" -> b.x + b.width
                      [] view = "front" -> -b.y
                      [] OTHER -> b.y + b.length,
          priority |-> TypePriority(cfg, "staircase", 1),
          x |-> IF horiz THEN b.x ELSE b.y,
          width |-> IF horiz THEN b.width ELSE b.length,
          height |-> b.num_steps * Get(obj, "step_rise", 7000),
          z |-> fl.wall_z, num_steps |-> b.num_steps,
          origin |-> <<fl.index, i, 0>>]>>

\* one wall of a room, or nothing when that side is edge-on in the view
RoomWallEntry(view, cfg, fl, obj, i, d) ==
    LET direction == Lower(obj.walls[d])
        t == cfg.wall_thickness
        horiz == view \in {"front", "back"}
        visible == IF horiz THEN direction \in {"north", "south"}
                   ELSE direction \in {"east", "west"}
        wall_key == Get(obj, "name", <<>>) \o <<direction>>
        depth ==
            CASE direction = "west" ->
                   IF view = "left" THEN -obj.x ELSE -(obj.x + t)
              [] direction = "east" ->
                   IF view = "right" THEN obj.x + obj.width
                   ELSE -(obj.x + obj.width - t)
              [] direction = "north" ->
                   IF view = "front" THEN -obj.y ELSE obj.y
              [] OTHER ->
                   IF view = "back" THEN obj.y + obj.length
                   ELSE -(obj.y + obj.length)
    IN IF ~visible THEN <<>>
       ELSE <<[type |-> "wall", name |-> wall_key, depth |-> depth,
               priority |-> TypePriority(cfg, "wall", 2),
               x |-> IF horiz THEN obj.x ELSE obj.y,
               width |-> IF horiz THEN obj.width ELSE obj.length,
               height |-> Get(Get(obj, "wall_heights", <<>>), direction,
                              Get(obj, "height", fl.floor_height)),
               z |-> fl.wall_z,
               openings |-> WallOpenings(fl.objects, wall_key),
               coord_key |-> IF horiz THEN "x" ELSE "y",
               floor_height_expected |-> fl.floor_height,
               origin |-> <<fl.index, i, d>>]>>

RoomEntries(view, cfg, fl, obj, i) ==
    LET f[d \in 0..Len(obj.walls)] ==
            IF d = 0 THEN <<>>
            ELSE f[d - 1] \o RoomWallEntry(view, cfg, fl, obj, i, d)
    IN f[Len(obj.walls)]

\* a standalone wall is added when it runs across the view
WallEntry(view, cfg, fl, obj, i) ==
    LET wall_name == Get(obj, "name", <<>>)
        wall_height_val == Get(obj, "height", fl.floor_height)
        wall_height_end == Get(obj, "height_end", wall_height_val)
        horizontal == Abs(obj.end_y - obj.start_y) < 1000
        vertical == Abs(obj.end_x - obj.start_x) < 1000
        horiz == view \in {"front", "back"}
    IN IF horiz /\ horizontal
       THEN <<[type |-> "wall", name |-> wall_name,
               depth |-> IF view = "front" THEN -obj.start_y ELSE obj.start_y,
               priority |-> TypePriority(cfg, "wall", 2),
               x |-> Min(obj.start_x, obj.end_x),
               width |-> Abs(obj.end_x - obj.start_x),
               height |-> wall_height_val, height_end |-> wall_height_end,
               z |-> fl.wall_z,
               openings |-> WallOpenings(fl.objects, wall_name),
               coord_key |-> "x",
               floor_height_expected |-> fl.floor_height,
               origin |-> <<fl.index, i, 0>>]>>
       ELSE IF ~horiz /\ vertical
       THEN <<[type |-> "wall", name |-> wall_name,
               depth |-> IF view = "left" THEN -obj.start_x ELSE obj.start_x,
               priority |-> TypePriority(cfg, "wall", 2),
               x |-> Min(obj.start_y, obj.end_y),
               width |-> Abs(obj.end_y - obj.start_y),
               height |-> wall_height_val, height_end |-> wall_height_end,
               z |-> fl.wall_z,
               openings |-> WallOpenings(fl.objects, wall_name),
               coord_key |-> "y",
               floor_height_expected |-> fl.floor_height,
               origin |-> <<fl.index, i, 0>>]>>
       ELSE <<>>

\* pillar coordinates are its centre; the depth is its nearest face
PillarEntry(view, cfg, fl, obj, i) ==
    LET pillar_size == Get(obj, "size", cfg.wall_thickness)
        half == pillar_size \div 2
    IN <<[type |-> "pillar", name |-> <<"Pillar">> \o Get(obj, "name", <<>>),
          depth |-> CASE view = "left" -> -(obj.x - half)
                      [] view = "right" -> obj.x + half
                      [] view = "front" -> -(obj.y - half)
                      [] OTHER -> obj.y + half,
          priority |-> TypePriority(cfg, "pillar", 3),
          x |-> IF view \in {"left", "right"} THEN obj.y - half
                ELSE obj.x - half,
          width |-> pillar_size,
          height |-> Get(obj, "height", fl.floor_height),
          z |-> fl.wall_z, openings |-> <<>>, coord_key |-> "None",
          origin |-> <<fl.index, i, 0>>]>>

EntriesOf(view, cfg, fl, obj, i) ==
    CASE obj.type = "floor_slab" -> SlabEntry(view, cfg, fl, obj, i)
      [] obj.type = "beam" -> BeamEntry(view, cfg, fl, obj, i)
      [] obj.type = "staircase" -> StairEntry(view, cfg, fl, obj, i)
      [] obj.type = "room" -> RoomEntries(view, cfg, fl, obj, i)
      [] obj.type = "wall" -> WallEntry(view, cfg, fl, obj, i)
      [] obj.type = "pillar" -> PillarEntry(view, cfg, fl, obj, i)
      [] OTHER -> <<>>

\* a sort on the depth alone, equal depths staying in collection order
SortByDepthOnly(entries) ==
    Vals(StableSort([n \in 1..Len(entries) |->
            [key |-> <<entries[n].depth, 0>>, val |-> entries[n]]]))

\* sort(key=(depth, priority)) of a list of entries
SortByDepth(entries) ==
    Vals(StableSort([n \in 1..Len(entries) |->
            [key |-> <<entries[n].depth, entries[n].priority>>, val |-> entries[n]]]))

\* objects_to_draw of the floor at index fi, after its sort
FloorContext(cfg, house, fi) ==
    LET floor_num == house.floors[fi].floor_number
        current_z == CurrentZ(cfg, house, fi)
    IN [index |-> fi, objects |-> house.floors[fi].objects,
        floor_height |-> ElevFloorHeight(cfg, floor_num),
        slab_z |-> current_z, wall_z |-> current_z + cfg.floor_slab_thickness]

ObjectsToDraw(view, cfg, house, fi) ==
    LET fl == FloorContext(cfg, house, fi)
        items == FloorObjectsWithDepth(view, cfg, fl.objects)
        f[n \in 0..Len(items)] ==
            IF n = 0 THEN <<>>
            ELSE f[n - 1] \o EntriesOf(view, cfg, fl, items[n].obj, items[n].index)
    IN SortByDepth(f[Len(items)])

\* all_objects_to_draw after the global sort
AllObjectsToDraw(view, cfg, house) ==
    LET f[fi \in 0..Len(house.floors)] ==
            IF fi = 0 THEN <<>>
            ELSE f[fi - 1] \o ObjectsToDraw(view, cfg, house, fi)
    IN SortByDepth(f[Len(house.floors)])

\* unmirrored: the heights in declared order in every view
SlopeHeightsDeclared(view, obj_height, height_end) ==
    [left |-> obj_height, right |-> height_end]

\* h_left, h_right of a sloping wall: exchanged in the mirrored views
SlopeHeights(view, obj_height, height_end) ==
    IF view \in {"front", "right"}
    THEN [left |-> height_end, right |-> obj_height]
    ELSE [left |-> obj_height, right |-> height_end]

\* The elements one entry of all_objects_to_draw adds to the SVG: its own
\* shape, then the rectangle of each of its openings.  `origin` and `role`
\* say which entry an element belongs to.
DrawWallShape(view, width, total_height, e) ==
    LET obj_x == world_to_svg_x(view, width, e.x, e.width)
        obj_bottom_y == z_to_y(total_height, e.z)
        obj_top_y == z_to_y(total_height, e.z + e.height)
        is_sloping == Has(e, "height_end") /\ e.height # e.height_end
        h == SlopeHeights(view, e.height, e.height_end)
    IN IF is_sloping
       THEN [shape |-> "polygon",
             points |-> << <<obj_x, z_to_y(total_height, e.z)>>,
                           <<obj_x, z_to_y(total_height, e.z + h.left)>>,
                           <<obj_x + e.width, z_to_y(total_height, e.z + h.right)>>,
                           <<obj_x + e.width, z_to_y(total_height, e.z)>> >>,
             fill |-> "#C19A6B", origin |-> e.origin, role |-> "object"]
       ELSE [shape |-> "rect", x |-> obj_x, y |-> obj_top_y, width |-> e.width,
             height |-> obj_bottom_y - obj_top_y,
             fill |-> "#C19A6B", origin |-> e.origin, role |-> "object"]

DrawOpening(view, width, total_height, e, opening) ==
    LET opening_x_world == Get(opening, e.coord_key, 0)
        opening_z_bottom ==
            IF opening.type = "window" THEN e.z + Get(opening, "sill_height", 30000)
            ELSE e.z
        bottom_y == z_to_y(total_height, opening_z_bottom)
        top_y == z_to_y(total_height, opening_z_bottom + opening.height)
    IN [shape |-> "rect",
        x |-> world_to_svg_x(view, width, opening_x_world, opening.width),
        y |-> top_y, width |-> opening.width, height |-> bottom_y - top_y,
        fill |-> IF opening.type = "window" THEN "#87CEEB" ELSE "#D2691E",
        origin |-> e.origin, role |-> "opening", opening |-> opening]

DrawObject(view, width, total_height, e) ==
    LET obj_x == world_to_svg_x(view, width, e.x, e.width)
        obj_bottom_y == z_to_y(total_height, e.z)
        obj_top_y == z_to_y(total_height, e.z + e.height)
        box == [shape |-> "rect", x |-> obj_x, y |-> obj_top_y, width |-> e.width,
                height |-> obj_bottom_y - obj_top_y,
                origin |-> e.origin, role |-> "object"]
    IN CASE e.type = "floor_slab" -> <<box @@ [fill |-> "#808080"]>>
         [] e.type = "beam" -> <<box @@ [fill |-> "#654321"]>>
         [] e.type = "staircase" ->
              <<[box EXCEPT !.shape = "staircase"]
                @@ [fill |-> "#C19A6B", num_steps |-> e.num_steps]>>
         [] e.type = "pillar" -> <<box @@ [fill |-> "#000"]>>
         [] OTHER ->
              <<DrawWallShape(view, width, total_height, e)>>
              \o [n \in 1..Len(e.openings) |->
                    DrawOpening(view, width, total_height, e, e.openings[n])]

\* the ground line and the plinth, which open the drawing
DrawGround(width, total_height, plinth_height) ==
    <<[shape |-> "line", x1 |-> 0, y1 |-> z_to_y(total_height, 0),
       x2 |-> width, y2 |-> z_to_y(total_height, 0), role |-> "ground"],
      [shape |-> "rect", x |-> 0, y |-> z_to_y(total_height, plinth_height),
       width |-> width,
       height |-> z_to_y(total_height, 0) - z_to_y(total_height, plinth_height),
       fill |-> "#A0826D", role |-> "plinth"]>>

\* the openings drawn in a pass of their own after all the objects
DrawAllOpeningsLast(view, cfg, house, entries) ==
    LET width == ViewWidth(view, house)
        total_height == TotalHeight(cfg, house)
        f[n \in 0..Len(entries)] ==
            IF n = 0 THEN DrawGround(width, total_height, PlinthHeight(cfg, house))
            ELSE f[n - 1] \o DrawObject(view, width, total_height, entries[n])
    IN SelectSeq(f[Len(entries)], LAMBDA el : el.role # "opening")
       \o SelectSeq(f[Len(entries)], LAMBDA el : el.role = "opening")

DrawAll(view, cfg, house, entries) ==
    LET width == ViewWidth(view, house)
        total_height == TotalHeight(cfg, house)
        f[n \in 0..Len(entries)] ==
            IF n = 0 THEN DrawGround(width, total_height, PlinthHeight(cfg, house))
            ELSE f[n - 1] \o DrawObject(view, width, total_height, entries[n])
    IN f[Len(entries)]

(***************************************************************************)
(* The files generate_elevation_view writes (svg_2d.py 2025-2072,          *)
(* 2510-2514).  A path is a sequence of components, a component a sequence *)
(* of the pieces of text it is put together from; None is NoPath.          *)
(***************************************************************************)
NoPath == <<>>

\* os.path.dirname and os.path.join of a directory and a file name
dirname(path) == SubSeq(path, 1, Len(path) - 1)

join(dir, name) == dir \o <<name>>

\* str() of a number that is not negative
Str(n) ==
    LET digit(d) == <<"0", "1", "2", "3", "4", "5", "6", "7", "8", "9">>[d + 1]
        f[m \in 0..n] == IF m < 10 THEN <<digit(m)>>
                         ELSE Append(f[m \div 10], digit(m % 10))
    IN f[n]

\* the current directory, named '.' or '', is always there
DirExists(dir, exists) == dir \in {<<>>, <<<<".">>>>} \/ exists

DebugFileName(view, floor_num) ==
    <<"objects_debug_", view, "_floor">> \o Str(floor_num) \o <<".json">>

\* debug_data of the floor at index fi
DebugData(view, cfg, house, fi) ==
    LET objs == ObjectsToDraw(view, cfg, house, fi)
    IN [view_type |-> view, floor_number |-> house.floors[fi].floor_number,
        current_z |-> CurrentZ(cfg, house, fi),
        objects |-> [n \in 1..Len(objs) |->
            [type |-> objs[n].type, name |-> objs[n].name, depth |-> objs[n].depth,
             priority |-> objs[n].priority, x |-> objs[n].x, width |-> objs[n].width,
             height |-> objs[n].height, z |-> objs[n].z,
             num_openings |-> Len(Get(objs[n], "openings", <<>>))]]]

\* the debug file of every floor, written beside the output file, or in '.'
\* without an output path; a write that fails is passed over
DebugFiles(view, cfg, house, path, exists) ==
    LET dir == IF path # NoPath THEN dirname(path) ELSE <<<<".">>>>
        f[fi \in 0..Len(house.floors)] ==
            IF fi = 0 THEN <<>>
            ELSE IF ~DirExists(dir, exists) THEN f[fi - 1]
            ELSE Append(f[fi - 1],
                    [path |-> join(dir, DebugFileName(view, house.floors[fi].floor_number)),
                     content |-> DebugData(view, cfg, house, fi)])
    IN f[Len(house.floors)]

(***************************************************************************)
(* The dimensions of an elevation (svg_2d.py 538-632, 2144-2149,           *)
(* 2243-2500).  A dimension line is kept as the two points it measures     *)
(* between, after the clear-span adjustment, and its offset.               *)
(***************************************************************************)
\* svg_draw_dimension_line for a line along an axis, where the length
\* sqrt(dx^2 + dy^2) is |dx| + |dy|; nothing when that is under
\* min_dimension_length
svg_draw_dimension_line(cfg, x1, y1, x2, y2, offset, horizontal, adjust_start, adjust_end) ==
    LET wall_thickness == Get(cfg, "wall_thickness", 8000)
        ax1 == IF adjust_start /\ horizontal THEN x1 + wall_thickness ELSE x1
        ay1 == IF adjust_start /\ ~horizontal THEN y1 + wall_thickness ELSE y1
        ax2 == IF adjust_end /\ horizontal THEN x2 - wall_thickness ELSE x2
        ay2 == IF adjust_end /\ ~horizontal THEN y2 - wall_thickness ELSE y2
        length == Abs(ax2 - ax1) + Abs(ay2 - ay1)
    IN IF length < cfg.dimensions.min_dimension_length THEN <<>>
       ELSE <<[shape |-> "dimension", x1 |-> ax1, y1 |-> ay1, x2 |-> ax2, y2 |-> ay2,
               offset |-> offset, is_horizontal |-> horizontal, length |-> length]>>

\* the fields `more` added to every element of seq
With(seq, more) == [n \in 1..Len(seq) |-> seq[n] @@ more]

DepthTolerance == 5000

HeightTolerance == 1000

\* max_wall_depth; asked for only when there is a wall
MaxWallDepth(entries) ==
    LET depths == {entries[n].depth : n \in {m \in 1..Len(entries) : entries[m].type = "wall"}}
    IN CHOOSE d \in depths : \A c \in depths : c <= d

\* every wall taken as front-most
IsFrontWallAlways(entries, e) ==
    TRUE

IsFrontWall(entries, e) ==
    Abs(e.depth - MaxWallDepth(entries)) <= DepthTolerance

\* the test that puts a drawn wall into walls_with_custom_heights
HasCustomHeight(entries, e) ==
    /\ e.type = "wall"
    /\ IsFrontWall(entries, e)
    /\ Has(e, "floor_height_expected")
    /\ \/ Abs(e.height - e.floor_height_expected) > HeightTolerance
       \/ Abs(Get(e, "height_end", e.height) - e.floor_height_expected) > HeightTolerance

WallsWithCustomHeights(entries) ==
    SelectSeq(entries, LAMBDA e : HasCustomHeight(entries, e))

\* what drawing the openings of entry e appends to elevation_openings
ElevationOpeningsOf(entries, e) ==
    IF e.type # "wall" THEN <<>>
    ELSE IF ~IsFrontWall(entries, e) THEN <<>>
    ELSE [k \in 1..Len(e.openings) |->
            [type |-> e.openings[k].type,
             x |-> Get(e.openings[k], e.coord_key, 0),
             z_bottom |-> IF e.openings[k].type = "window"
                          THEN e.z + Get(e.openings[k], "sill_height", 30000)
                          ELSE e.z,
             width |-> e.openings[k].width, height |-> e.openings[k].height,
             wall_start |-> e.x, wall_width |-> e.width, wall_name |-> e.name,
             origin |-> e.origin, opening |-> e.openings[k]]]

ElevationOpenings(entries) ==
    LET f[n \in 0..Len(entries)] ==
            IF n = 0 THEN <<>>
            ELSE f[n - 1] \o ElevationOpeningsOf(entries, entries[n])
    IN f[Len(entries)]

\* wall_groups: the openings by wall name, names in order of first use
WallGroups(openings) ==
    LET f[n \in 0..Len(openings)] ==
            IF n = 0 THEN <<>>
            ELSE LET k == openings[n].wall_name
                 IN IF k \in OKeys(f[n - 1])
                    THEN OPut(f[n - 1], k, Append(OGet(f[n - 1], k), openings[n]))
                    ELSE OPut(f[n - 1], k, <<openings[n]>>)
    IN f[Len(openings)]

SortByX(openings) ==
    Vals(StableSort([n \in 1..Len(openings) |->
            [key |-> <<openings[n].x, 0>>, val |-> openings[n]]]))

\* the gap (if the opening starts beyond current_pos) and the width of the
\* i-th opening of a wall group, then those of the later ones
RECURSIVE ElevOpeningChain(_, _, _, _, _, _, _)
ElevOpeningChain(view, cfg, width, opening_y, sorted, i, current_pos) ==
    IF i > Len(sorted) THEN <<>>
    ELSE LET o == sorted[i]
             start_svg == world_to_svg_x(view, width, current_pos, 0)
             end_svg == world_to_svg_x(view, width, o.x, 0)
             opening_start_svg == world_to_svg_x(view, width, o.x, o.width)
             tag == [origin |-> o.origin, opening |-> o.opening]
         IN (IF o.x > current_pos
             THEN With(svg_draw_dimension_line(cfg, Min(start_svg, end_svg), opening_y,
                                               Max(start_svg, end_svg), opening_y,
                                               15000, TRUE, FALSE, FALSE),
                       tag @@ [role |-> "opening-gap"])
             ELSE <<>>)
            \o With(svg_draw_dimension_line(cfg, opening_start_svg, opening_y,
                                            opening_start_svg + o.width, opening_y,
                                            15000, TRUE, FALSE, FALSE),
                    tag @@ [role |-> "opening-width"])
            \o ElevOpeningChain(view, cfg, width, opening_y, sorted, i + 1, o.x + o.width)

ElevOpeningDimensions(view, cfg, width, total_height, entries) ==
    LET groups == WallGroups(ElevationOpenings(entries))
        f[g \in 0..Len(groups)] ==
            IF g = 0 THEN <<>>
            ELSE LET sorted == SortByX(groups[g].val)
                     zs == {sorted[n].z_bottom : n \in 1..Len(sorted)}
                     min_z_bottom == CHOOSE z \in zs : \A u \in zs : z <= u
                 IN f[g - 1] \o ElevOpeningChain(view, cfg, width,
                                                 z_to_y(total_height, min_z_bottom),
                                                 sorted, 1, sorted[1].wall_start)
    IN f[Len(groups)]

\* the (min, max) key of dimensioned_height_ranges
HeightRange(e) ==
    <<Min(e.height, Get(e, "height_end", e.height)),
      Max(e.height, Get(e, "height_end", e.height))>>

\* the height dimensions of one wall of walls_with_custom_heights
WallHeightDimension(view, cfg, width, total_height, e) ==
    LET height_end == Get(e, "height_end", e.height)
        is_sloping == Has(e, "height_end") /\ e.height # e.height_end
        wall_x_svg == world_to_svg_x(view, width, e.x, e.width)
        wall_bottom_y == z_to_y(total_height, e.z)
        h == SlopeHeights(view, e.height, height_end)
        tag == [origin |-> e.origin, role |-> "wall-height"]
    IN IF is_sloping
       THEN With(svg_draw_dimension_line(cfg, wall_x_svg, wall_bottom_y, wall_x_svg,
                                         z_to_y(total_height, e.z + h.left),
                                         -30000, FALSE, FALSE, FALSE), tag)
            \o With(svg_draw_dimension_line(cfg, wall_x_svg + e.width, wall_bottom_y,
                                            wall_x_svg + e.width,
                                            z_to_y(total_height, e.z + h.right),
                                            -30000, FALSE, FALSE, FALSE), tag)
       ELSE With(svg_draw_dimension_line(cfg, wall_x_svg + e.width \div 2, wall_bottom_y,
                                         wall_x_svg + e.width \div 2,
                                         z_to_y(total_height, e.z + e.height),
                                         -30000, FALSE, FALSE, FALSE), tag)

\* a wall whose height range an earlier wall of the list has is skipped
WallHeightDimensions(view, cfg, width, total_height, entries) ==
    LET walls == WallsWithCustomHeights(entries)
        f[n \in 0..Len(walls)] ==
            IF n = 0 THEN <<>>
            ELSE IF \E m \in 1..(n - 1) : HeightRange(walls[m]) = HeightRange(walls[n])
            THEN f[n - 1]
            ELSE f[n - 1] \o WallHeightDimension(view, cfg, width, total_height, walls[n])
    IN f[Len(walls)]

\* the wall height of each floor, on the right
FloorHeightDimensions(cfg, house, width, total_height) ==
    LET f[fi \in 0..Len(house.floors)] ==
            IF fi = 0 THEN <<>>
            ELSE LET fl == FloorContext(cfg, house, fi)
                 IN IF fl.floor_height > 0
                    THEN f[fi - 1]
                         \o With(svg_draw_dimension_line(
                                    cfg, width, z_to_y(total_height, fl.wall_z), width,
                                    z_to_y(total_height, fl.wall_z + fl.floor_height),
                                    30000, FALSE, FALSE, FALSE),
                                 [role |-> "floor-height"])
                    ELSE f[fi - 1]
    IN f[Len(house.floors)]

\* everything under dimensions.show_outer_dimensions
ElevationDimensions(view, cfg, house, entries) ==
    LET width == ViewWidth(view, house)
        total_height == TotalHeight(cfg, house)
    IN IF ~cfg.dimensions.show_outer_dimensions THEN <<>>
       ELSE FloorHeightDimensions(cfg, house, width, total_height)
            \o With(svg_draw_dimension_line(cfg, 0, z_to_y(total_height, total_height),
                                            width, z_to_y(total_height, total_height),
                                            -30000, TRUE, FALSE, FALSE),
                    [role |-> "overall-width"])
            \o ElevOpeningDimensions(view, cfg, width, total_height, entries)
            \o WallHeightDimensions(view, cfg, width, total_height, entries)

\* the elements generate_elevation_view writes into the drawing
ElevationElements(view, cfg, house, entries) ==
    DrawAll(view, cfg, house, entries) \o ElevationDimensions(view, cfg, house, entries)

(***************************************************************************)
(* The floor plan (svg_2d.py 21-202 and generate_floor_plan_svg 828-1160,  *)
(* 1383-1385): the shapes of a floor's objects and the opening-dimension   *)
(* chains.  An element's `origin` is the index of its object in the         *)
(* floor's 'objects' list.  A wall shape is kept as centerline and         *)
(* thickness; WallCorners gives the polygon of an axis-aligned one.        *)
(***************************************************************************)
\* svg_draw_wall: nothing for a wall of length 0
svg_draw_wall(start_x, start_y, end_x, end_y, thickness) ==
    IF start_x = end_x /\ start_y = end_y THEN <<>>
    ELSE <<[shape |-> "wall", start_x |-> start_x, start_y |-> start_y,
            end_x |-> end_x, end_y |-> end_y, thickness |-> thickness]>>

Sign(v) == IF v > 0 THEN 1 ELSE IF v < 0 THEN -1 ELSE 0

\* the four corners x1,y1 x4,y4 x3,y3 x2,y2 of the polygon svg_draw_wall
\* writes for an axis-aligned wall: the perpendicular unit vector is
\* (-dy, dx) / length
WallCorners(w) ==
    LET px == -Sign(w.end_y - w.start_y)
        py == Sign(w.end_x - w.start_x)
        offset == w.thickness \div 2
    IN << <<w.start_x + px * offset, w.start_y + py * offset>>,
          <<w.end_x + px * offset, w.end_y + py * offset>>,
          <<w.end_x - px * offset, w.end_y - py * offset>>,
          <<w.start_x - px * offset, w.start_y - py * offset>> >>

\* the centerlines with east and west as long as north and south
room_centerlines_full(x, y, width, length, t) ==
    [north |-> <<x, y + t \div 2, x + width, y + t \div 2>>,
     south |-> <<x, y + length - t \div 2, x + width, y + length - t \div 2>>,
     east |-> <<x + width - t \div 2, y, x + width - t \div 2, y + length>>,
     west |-> <<x + t \div 2, y, x + t \div 2, y + length>>]

\* the centerlines svg_draw_room passes to svg_draw_wall
room_centerlines(x, y, width, length, t) ==
    [north |-> <<x, y + t \div 2, x + width, y + t \div 2>>,
     south |-> <<x, y + length - t \div 2, x + width, y + length - t \div 2>>,
     east |-> <<x + width - t \div 2, y + t, x + width - t \div 2, y + length - t>>,
     west |-> <<x + t \div 2, y + t, x + t \div 2, y + length - t>>]

Directions == <<"north", "south", "east", "west">>

\* the shapes of a room, north, south, east, west in this order; `walls` is
\* the list given, or all four for None
svg_draw_room(x, y, width, length, thickness, walls) ==
    LET c == room_centerlines(x, y, width, length, thickness)
        sides == {Lower(walls[i]) : i \in 1..Len(walls)}
        f[d \in 0..4] ==
            IF d = 0 THEN <<>>
            ELSE LET k == Directions[d]
                     w == svg_draw_wall(c[k][1], c[k][2], c[k][3], c[k][4], thickness)
                 IN IF k \in sides
                    THEN f[d - 1] \o [n \in 1..Len(w) |-> w[n] @@ [side |-> k]]
                    ELSE f[d - 1]
    IN f[4]

svg_draw_door(x, y, width, direction) ==
    IF Lower(direction) \in {"north", "south"}
    THEN [shape |-> "rect", x |-> x, y |-> y - 2000, width |-> width,
          height |-> 4000, fill |-> "#A0522D"]
    ELSE [shape |-> "rect", x |-> x - 2000, y |-> y, width |-> 4000,
          height |-> width, fill |-> "#A0522D"]

svg_draw_window(x, y, width, direction) ==
    IF Lower(direction) \in {"north", "south"}
    THEN [shape |-> "rect", x |-> x, y |-> y - 1000, width |-> width,
          height |-> 2000, fill |-> "#87CEEB"]
    ELSE [shape |-> "rect", x |-> x - 1000, y |-> y, width |-> 2000,
          height |-> width, fill |-> "#87CEEB"]

svg_draw_floor_slab(x, y, width, length) ==
    [shape |-> "rect", x |-> x, y |-> y, width |-> width, height |-> length,
     fill |-> "#D3D3D3"]

svg_draw_beam(x, y, width, length) ==
    [shape |-> "rect", x |-> x, y |-> y, width |-> width, height |-> length,
     fill |-> "#8B4513"]

\* `size` is the size given, or the wall thickness for None
svg_draw_pillar(x, y, size) ==
    [shape |-> "rect", x |-> x - size \div 2, y |-> y - size \div 2,
     width |-> size, height |-> size, fill |-> "#000"]

\* every shape of seq tagged with the index of the object it is drawn for
Tagged(seq, i) == [n \in 1..Len(seq) |-> seq[n] @@ [origin |-> i]]

\* the shapes of the objects of one kind, in list order
RECURSIVE PlanShapes(_, _, _, _)
PlanShapes(cfg, objs, kinds, i) ==
    IF i > Len(objs) THEN <<>>
    ELSE LET o == objs[i]
             own ==
                IF o.type \notin kinds THEN <<>>
                ELSE CASE o.type = "floor_slab" ->
                          <<svg_draw_floor_slab(o.x, o.y, o.width, o.length)>>
                       [] o.type = "beam" ->
                          <<svg_draw_beam(o.x, o.y, o.width, o.length)>>
                       [] o.type = "staircase" ->
                          <<[shape |-> "staircase", x |-> StairBox(o).x,
                             y |-> StairBox(o).y, width |-> StairBox(o).width,
                             height |-> StairBox(o).length]>>
                       [] o.type = "room" ->
                          svg_draw_room(o.x, o.y, o.width, o.length,
                                        Get(o, "wall_thickness", cfg.wall_thickness),
                                        Get(o, "walls", Directions))
                       [] o.type = "wall" ->
                          svg_draw_wall(o.start_x, o.start_y, o.end_x, o.end_y,
                                        Get(o, "thickness", cfg.wall_thickness))
                       [] o.type = "door" ->
                          <<svg_draw_door(o.x, o.y, o.width, Get(o, "direction", "north"))>>
                       [] o.type = "window" ->
                          <<svg_draw_window(o.x, o.y, o.width, Get(o, "direction", "north"))>>
                       [] o.type = "pillar" ->
                          <<svg_draw_pillar(o.x, o.y, Get(o, "size", cfg.wall_thickness))>>
                       [] OTHER -> <<>>
         IN Tagged(own, i) \o PlanShapes(cfg, objs, kinds, i + 1)

\* min_x, min_y, max_x, max_y over slabs, beams, rooms and walls
PlanBounds(objs) ==
    LET boxes == {i \in 1..Len(objs) : objs[i].type \in {"floor_slab", "beam", "room"}}
        walls == {i \in 1..Len(objs) : objs[i].type = "wall"}
        xs == {objs[i].x : i \in boxes} \cup {objs[i].x + objs[i].width : i \in boxes}
              \cup {objs[i].start_x : i \in walls} \cup {objs[i].end_x : i \in walls}
        ys == {objs[i].y : i \in boxes} \cup {objs[i].y + objs[i].length : i \in boxes}
              \cup {objs[i].start_y : i \in walls} \cup {objs[i].end_y : i \in walls}
    IN [min_x |-> CHOOSE v \in xs : \A u \in xs : v <= u,
        max_x |-> CHOOSE v \in xs : \A u \in xs : v >= u,
        min_y |-> CHOOSE v \in ys : \A u \in ys : v <= u,
        max_y |-> CHOOSE v \in ys : \A u \in ys : v >= u]

\* str.capitalize() on a lowered direction
Capitalize(w) ==
    CASE w = "north" -> "North"
      [] w = "south" -> "South"
      [] w = "east" -> "East"
      [] w = "west" -> "West"
      [] OTHER -> w

\* wall_bounds: all four sides of every room, whatever its 'walls', and the
\* axis-aligned standalone walls; a later entry replaces one of the same name
WallBoundsOfRoom(d, o) ==
    LET n == o.name
        a == OPut(d, n \o <<"North">>,
                  [start |-> o.x, end |-> o.x + o.width, coord |-> o.y,
                   direction |-> "north"])
        b == OPut(a, n \o <<"South">>,
                  [start |-> o.x, end |-> o.x + o.width, coord |-> o.y + o.length,
                   direction |-> "south"])
        c == OPut(b, n \o <<"East">>,
                  [start |-> o.y, end |-> o.y + o.length, coord |-> o.x + o.width,
                   direction |-> "east"])
    IN OPut(c, n \o <<"West">>,
            [start |-> o.y, end |-> o.y + o.length, coord |-> o.x,
             direction |-> "west"])

WallBoundsOfWall(d, o, bounds) ==
    IF Abs(o.end_y - o.start_y) < 10
    THEN OPut(d, Get(o, "name", <<"Wall">>),
              [start |-> Min(o.start_x, o.end_x), end |-> Max(o.start_x, o.end_x),
               coord |-> o.start_y,
               direction |-> IF 2 * o.start_y < bounds.min_y + bounds.max_y
                             THEN "north" ELSE "south"])
    ELSE IF Abs(o.end_x - o.start_x) < 10
    THEN OPut(d, Get(o, "name", <<"Wall">>),
              [start |-> Min(o.start_y, o.end_y), end |-> Max(o.start_y, o.end_y),
               coord |-> o.start_x,
               direction |-> IF 2 * o.start_x < bounds.min_x + bounds.max_x
                             THEN "west" ELSE "east"])
    ELSE d

WallBounds(objs) ==
    LET f[i \in 0..Len(objs)] ==
            IF i = 0 THEN <<>>
            ELSE IF objs[i].type = "room" THEN WallBoundsOfRoom(f[i - 1], objs[i])
            ELSE IF objs[i].type = "wall"
            THEN WallBoundsOfWall(f[i - 1], objs[i], PlanBounds(objs))
            ELSE f[i - 1]
    IN f[Len(objs)]

\* the wall name a door or window resolves to in the floor plan: its 'wall',
\* else '<room>_<Direction>'; NoneName when it has neither
PlanWallName(o) ==
    LET wall_name == Get(o, "wall", <<>>)
        room == Get(o, "room", <<>>)
    IN IF wall_name # <<>> THEN wall_name
       ELSE IF room # <<>>
       THEN room \o <<Capitalize(Lower(Get(o, "direction", "north")))>>
       ELSE NoneName

\* openings_by_wall after the sort by position: wall names in order of
\* their first opening, each with its openings' indices
OpeningPos(direction, o) == IF direction \in {"north", "south"} THEN o.x ELSE o.y

OpeningsByWall(objs) ==
    LET wb == WallBounds(objs)
        f[i \in 0..Len(objs)] ==
            IF i = 0 THEN <<>>
            ELSE IF /\ objs[i].type \in {"door", "window"}
                    /\ PlanWallName(objs[i]) # NoneName
                    /\ PlanWallName(objs[i]) \in OKeys(wb)
            THEN LET w == PlanWallName(objs[i])
                 IN OPut(f[i - 1], w,
                         IF w \in OKeys(f[i - 1]) THEN Append(OGet(f[i - 1], w), i)
                         ELSE <<i>>)
            ELSE f[i - 1]
        grouped == f[Len(objs)]
    IN [n \in 1..Len(grouped) |->
          [key |-> grouped[n].key,
           val |-> Vals(StableSort([m \in 1..Len(grouped[n].val) |->
                     [key |-> <<OpeningPos(OGet(wb, grouped[n].key).direction,
                                           objs[grouped[n].val[m]]), 0>>,
                      val |-> grouped[n].val[m]]]))]]

GapThreshold == 5000

\* the final gap measured to the wall's outer end
FinalGapToOuterEnd(t, wall_info, direction, last) ==
    LET final_start == OpeningPos(direction, last) + last.width
        final_length == wall_info.end - final_start
    IN IF final_length > GapThreshold
       THEN <<[shape |-> "opening-dimension", part |-> "final",
               from |-> final_start, to |-> wall_info.end,
               length |-> final_length]>>
       ELSE <<>>

\* gap and width drawn as a pair: no width without its gap
svg_draw_opening_dimensions_paired(o, direction, reference_point) ==
    LET pos == OpeningPos(direction, o)
    IN IF Abs(pos - reference_point) > GapThreshold
       THEN <<[shape |-> "opening-dimension", part |-> "gap",
               from |-> reference_point, to |-> pos,
               length |-> Abs(pos - reference_point)],
              [shape |-> "opening-dimension", part |-> "width",
               from |-> pos, to |-> pos + o.width, length |-> o.width]>>
       ELSE <<>>

\* svg_draw_opening_dimensions: the gap from the reference point, if it is
\* longer than 5, then the width
svg_draw_opening_dimensions(o, direction, reference_point) ==
    LET pos == OpeningPos(direction, o)
    IN (IF Abs(pos - reference_point) > GapThreshold
        THEN <<[shape |-> "opening-dimension", part |-> "gap",
                from |-> reference_point, to |-> pos,
                length |-> Abs(pos - reference_point)]>>
        ELSE <<>>)
       \o <<[shape |-> "opening-dimension", part |-> "width",
             from |-> pos, to |-> pos + o.width, length |-> o.width]>>

\* the final gap from the last opening to the wall's inner end
FinalGap(t, wall_info, direction, last) ==
    LET final_start == OpeningPos(direction, last) + last.width
        wall_inside_end == wall_info.end - t
        final_length == wall_inside_end - final_start
    IN IF final_length > GapThreshold
       THEN <<[shape |-> "opening-dimension", part |-> "final",
               from |-> final_start, to |-> wall_inside_end,
               length |-> final_length]>>
       ELSE <<>>

\* every element of seq marked with the wall it dimensions
OnWall(seq, wall_name) == [n \in 1..Len(seq) |-> seq[n] @@ [wall |-> wall_name]]

(***************************************************************************)
(* assign_opening_offset_levels (svg_2d.py 634-712)                        *)
(***************************************************************************)
OpeningGapTolerance == 5000

\* the pseudo-edge of the opening at list index idx (counted from 0)
PseudoEdge(o, horizontal, idx) ==
    IF horizontal
    THEN [x1 |-> o.x, y1 |-> o.y, x2 |-> o.x + o.width, y2 |-> o.y, index |-> idx]
    ELSE [x1 |-> o.x, y1 |-> o.y, x2 |-> o.x, y2 |-> o.y + o.width, index |-> idx]

\* the first level none of whose ranges the span s..e comes within the
\* tolerance of, else a new level; levels[i + 1] holds level i
OpeningLevel(levels, s, e) ==
    LET overlaps(ranges) ==
            \E i \in 1..Len(ranges) :
                s < ranges[i][2] + OpeningGapTolerance /\ e > ranges[i][1] - OpeningGapTolerance
        free == {i \in 1..Len(levels) : ~overlaps(levels[i])}
    IN IF free = {} THEN Len(levels)
       ELSE (CHOOSE i \in free : \A j \in free : i <= j) - 1

\* the levels of the openings of one wall added to opening_levels; the
\* first opening's direction decides the axis for all of them
WallOpeningLevels(opening_levels, wall_name, openings) ==
    LET horizontal == Lower(openings[1].direction) \in {"north", "south"}
        es == [n \in 1..Len(openings) |-> PseudoEdge(openings[n], horizontal, n - 1)]
        sorted == Vals(StableSort([n \in 1..Len(es) |->
                        [key |-> IF horizontal THEN <<es[n].x1, es[n].x2>>
                                 ELSE <<es[n].y1, es[n].y2>>,
                         val |-> es[n]]]))
        f[i \in 0..Len(sorted)] ==
            IF i = 0 THEN [levels |-> <<>>, opening_levels |-> opening_levels]
            ELSE LET st == f[i - 1]
                     e == sorted[i]
                     s == IF horizontal THEN Min(e.x1, e.x2) ELSE Min(e.y1, e.y2)
                     t == IF horizontal THEN Max(e.x1, e.x2) ELSE Max(e.y1, e.y2)
                     lvl == OpeningLevel(st.levels, s, t)
                 IN [levels |-> PlaceRange(st.levels, lvl, s, t),
                     opening_levels |-> DictPut(st.opening_levels, <<wall_name, e.index>>, lvl)]
    IN f[Len(sorted)].opening_levels

\* openings_by_wall is a dict in insertion order: entries [key, val]
assign_opening_offset_levels(openings_by_wall) ==
    LET f[n \in 0..Len(openings_by_wall)] ==
            IF n = 0 THEN EmptyDict
            ELSE IF openings_by_wall[n].val = <<>> THEN f[n - 1]
            ELSE WallOpeningLevels(f[n - 1], openings_by_wall[n].key, openings_by_wall[n].val)
    IN f[Len(openings_by_wall)]

\* openings_for_levels: position, width and the opening's own direction
OpeningsForLevels(objs, by_wall) ==
    [n \in 1..Len(by_wall) |->
        [key |-> by_wall[n].key,
         val |-> [m \in 1..Len(by_wall[n].val) |->
                    LET o == objs[by_wall[n].val[m]]
                    IN [x |-> o.x, y |-> o.y, width |-> o.width,
                        direction |-> Lower(Get(o, "direction", "north"))]]]]

\* opening_levels.get((wall_name, wall_index), 0)
OpeningLevelOf(opening_levels, wall_name, wall_index) ==
    IF <<wall_name, wall_index>> \in DOMAIN opening_levels
    THEN opening_levels[<<wall_name, wall_index>>]
    ELSE 0

\* the chain of one wall: `indices` are its openings in sorted order; every
\* gap and width is drawn at the offset level of its opening
OpeningChain(cfg, objs, wall_name, wall_info, indices, opening_levels) ==
    LET direction == wall_info.direction
        ref[m \in 1..Len(indices)] ==
            IF m = 1 THEN wall_info.start + cfg.wall_thickness
            ELSE OpeningPos(direction, objs[indices[m - 1]]) + objs[indices[m - 1]].width
        f[m \in 0..Len(indices)] ==
            IF m = 0 THEN <<>>
            ELSE f[m - 1] \o
                 Tagged(With(OnWall(svg_draw_opening_dimensions(objs[indices[m]], direction,
                                                                ref[m]), wall_name),
                             [offset_level |-> OpeningLevelOf(opening_levels, wall_name, m - 1)]),
                        indices[m])
        last == indices[Len(indices)]
    IN f[Len(indices)] \o
       Tagged(OnWall(FinalGap(cfg.wall_thickness, wall_info, direction, objs[last]),
                     wall_name), last)

\* the opening-dimension pass, wall after wall
OpeningDimensions(cfg, objs) ==
    IF ~cfg.dimensions.show_opening_dimensions THEN <<>>
    ELSE LET wb == WallBounds(objs)
             by_wall == OpeningsByWall(objs)
             opening_levels == assign_opening_offset_levels(OpeningsForLevels(objs, by_wall))
             f[n \in 0..Len(by_wall)] ==
                IF n = 0 THEN <<>>
                ELSE f[n - 1] \o OpeningChain(cfg, objs, by_wall[n].key,
                                              OGet(wb, by_wall[n].key), by_wall[n].val,
                                              opening_levels)
         IN f[Len(by_wall)]

(***************************************************************************)
(* The edge dimensions of a floor plan (svg_2d.py 380-414, 485-536,        *)
(* 1162-1380)                                                              *)
(***************************************************************************)
PerimeterTolerance == 2000

ConnectionTolerance == 2000

\* each side tested on its own, so that an edge can be in two lists
classify_perimeter_edges_each_side(es, bounds) ==
    LET hs == OValues(es.horizontal)
        vs == OValues(es.vertical)
    IN [north |-> SelectSeq(hs, LAMBDA e : Abs(e.y1 - bounds.min_y) < PerimeterTolerance),
        south |-> SelectSeq(hs, LAMBDA e : Abs(e.y1 - bounds.max_y) < PerimeterTolerance),
        west |-> SelectSeq(vs, LAMBDA e : Abs(e.x1 - bounds.min_x) < PerimeterTolerance),
        east |-> SelectSeq(vs, LAMBDA e : Abs(e.x1 - bounds.max_x) < PerimeterTolerance)]

\* a horizontal edge goes to north before south, a vertical one to west
\* before east; each list keeps the order of the edge dict
classify_perimeter_edges(es, bounds) ==
    LET hs == OValues(es.horizontal)
        vs == OValues(es.vertical)
        north(e) == Abs(e.y1 - bounds.min_y) < PerimeterTolerance
        south(e) == Abs(e.y1 - bounds.max_y) < PerimeterTolerance
        west(e) == Abs(e.x1 - bounds.min_x) < PerimeterTolerance
        east(e) == Abs(e.x1 - bounds.max_x) < PerimeterTolerance
    IN [north |-> SelectSeq(hs, north),
        south |-> SelectSeq(hs, LAMBDA e : ~north(e) /\ south(e)),
        west |-> SelectSeq(vs, west),
        east |-> SelectSeq(vs, LAMBDA e : ~west(e) /\ east(e))]

\* another edge has an endpoint within tolerance of the point (x, y)
HasConnection(all_edges, edge, x, y) ==
    \E n \in 1..Len(all_edges) :
        /\ all_edges[n] # edge
        /\ \/ Abs(all_edges[n].x2 - x) < ConnectionTolerance
                /\ Abs(all_edges[n].y2 - y) < ConnectionTolerance
           \/ Abs(all_edges[n].x1 - x) < ConnectionTolerance
                /\ Abs(all_edges[n].y1 - y) < ConnectionTolerance

\* edge key -> <<has_start_connection, has_end_connection>>
detect_wall_connections(es) ==
    LET all_edges == OValues(es.horizontal) \o OValues(es.vertical)
        f[n \in 0..Len(all_edges)] ==
            IF n = 0 THEN <<>>
            ELSE OPut(f[n - 1], EdgeKey(all_edges[n]),
                      <<HasConnection(all_edges, all_edges[n],
                                      all_edges[n].x1, all_edges[n].y1),
                        HasConnection(all_edges, all_edges[n],
                                      all_edges[n].x2, all_edges[n].y2)>>)
    IN f[Len(all_edges)]

\* the floor has a slab, beam, room or wall, so that its bounds are numbers
HasBounds(objs) ==
    \E i \in 1..Len(objs) : objs[i].type \in {"floor_slab", "beam", "room", "wall"}

\* max(levels.values()) if levels else 0
MaxLevel(levels) ==
    IF DOMAIN levels = {} THEN 0
    ELSE CHOOSE l \in {levels[k] : k \in DOMAIN levels} :
            \A k \in DOMAIN levels : levels[k] <= l

\* the dimension of one edge: both ends are asked to be adjusted, whatever
\* wall_connections holds
EdgeDimension(cfg, e, offset, horizontal, side) ==
    With(svg_draw_dimension_line(cfg, e.x1, e.y1, e.x2, e.y2, offset,
                                 horizontal, TRUE, TRUE),
         [role |-> "edge-dimension", side |-> side, edge |-> EdgeKey(e), origin |-> 0])

\* the dimensions of the perimeter edges of one side, stacked by level
SideDimensions(cfg, es, horizontal, sign, side) ==
    LET levels == assign_dimension_offset_levels(es, horizontal)
        f[n \in 0..Len(es)] ==
            IF n = 0 THEN <<>>
            ELSE f[n - 1]
                 \o EdgeDimension(cfg, es[n],
                        sign * (cfg.dimensions.dimension_offset
                                + levels[EdgeKey(es[n])]
                                  * cfg.dimensions.dimension_offset_increment),
                        horizontal, side)
    IN f[Len(es)]

\* offset of the floor extent dimension of a side
FloorExtentOffset(cfg, es, horizontal) ==
    cfg.dimensions.dimension_offset
    + (MaxLevel(assign_dimension_offset_levels(es, horizontal)) + 1)
      * cfg.dimensions.dimension_offset_increment
    + (cfg.dimensions.dimension_offset_increment * 3) \div 2

FloorExtentDimensions(cfg, perimeter, b) ==
    With(svg_draw_dimension_line(cfg, b.min_x, b.min_y, b.max_x, b.min_y,
                                 -FloorExtentOffset(cfg, perimeter.north, TRUE),
                                 TRUE, FALSE, FALSE)
         \o svg_draw_dimension_line(cfg, b.min_x, b.max_y, b.max_x, b.max_y,
                                    FloorExtentOffset(cfg, perimeter.south, TRUE),
                                    TRUE, FALSE, FALSE)
         \o svg_draw_dimension_line(cfg, b.min_x, b.min_y, b.min_x, b.max_y,
                                    -FloorExtentOffset(cfg, perimeter.west, FALSE),
                                    FALSE, FALSE, FALSE)
         \o svg_draw_dimension_line(cfg, b.max_x, b.min_y, b.max_x, b.max_y,
                                    FloorExtentOffset(cfg, perimeter.east, FALSE),
                                    FALSE, FALSE, FALSE),
         [role |-> "floor-extent", origin |-> 0])

\* the edges of one dict that are in neither of its two perimeter lists
InteriorDimensions(cfg, edge_dict, sides, horizontal) ==
    LET es == OValues(edge_dict)
        f[n \in 0..Len(es)] ==
            IF n = 0 THEN <<>>
            ELSE IF \E m \in 1..Len(sides) : EdgeKey(sides[m]) = EdgeKey(es[n])
            THEN f[n - 1]
            ELSE f[n - 1]
                 \o EdgeDimension(cfg, es[n], cfg.dimensions.inner_dimension_offset,
                                  horizontal, "interior")
    IN f[Len(es)]

\* lines 1162-1268.  The bounds are read only when there is an edge or a
\* floor extent to draw.
EdgeDimensions(cfg, objs) ==
    IF ~(cfg.dimensions.show_outer_dimensions \/ cfg.dimensions.show_inner_dimensions)
    THEN <<>>
    ELSE LET es == extract_floor_edges(objs)
             wall_connections == detect_wall_connections(es)
             b == PlanBounds(objs)
             perimeter == classify_perimeter_edges(es, b)
         IN (IF cfg.dimensions.show_outer_dimensions
             THEN SideDimensions(cfg, perimeter.north, TRUE, -1, "north")
                  \o SideDimensions(cfg, perimeter.south, TRUE, 1, "south")
                  \o SideDimensions(cfg, perimeter.west, FALSE, -1, "west")
                  \o SideDimensions(cfg, perimeter.east, FALSE, 1, "east")
                  \o FloorExtentDimensions(cfg, perimeter, b)
             ELSE <<>>)
            \o (IF cfg.dimensions.show_inner_dimensions
                THEN InteriorDimensions(cfg, es.horizontal,
                                        perimeter.north \o perimeter.south, TRUE)
                     \o InteriorDimensions(cfg, es.vertical,
                                           perimeter.west \o perimeter.east, FALSE)
                ELSE <<>>)

\* lines 1271-1302: the name and the carpet area at the centre of each room
RoomLabels(cfg, objs) ==
    IF ~cfg.dimensions.show_room_dimensions THEN <<>>
    ELSE LET f[i \in 0..Len(objs)] ==
                IF i = 0 THEN <<>>
                ELSE IF objs[i].type # "room" THEN f[i - 1]
                ELSE LET t == Get(objs[i], "wall_thickness", cfg.wall_thickness)
                     IN Append(f[i - 1],
                               [shape |-> "room-label", origin |-> i,
                                carpet_width |-> objs[i].width - 2 * t,
                                carpet_length |-> objs[i].length - 2 * t])
         IN f[Len(objs)]

\* lines 1306-1380: a slab that is not the whole floor gets dimensions of
\* its own, between the perimeter dimensions and the floor extent
SlabDimensions(cfg, objs) ==
    IF ~cfg.dimensions.show_outer_dimensions THEN <<>>
    ELSE LET b == PlanBounds(objs)
             perimeter == classify_perimeter_edges(extract_floor_edges(objs), b)
             off(es, h) ==
                cfg.dimensions.dimension_offset
                + (MaxLevel(assign_dimension_offset_levels(es, h)) + 1)
                  * cfg.dimensions.dimension_offset_increment
                + (cfg.dimensions.dimension_offset_increment * 3) \div 4
             f[i \in 0..Len(objs)] ==
                IF i = 0 THEN <<>>
                ELSE IF objs[i].type # "floor_slab" THEN f[i - 1]
                ELSE LET o == objs[i]
                         width_differs ==
                            \/ Abs(o.width - (b.max_x - b.min_x)) > 1000
                            \/ Abs(o.x - b.min_x) > 1000
                         length_differs ==
                            \/ Abs(o.length - (b.max_y - b.min_y)) > 1000
                            \/ Abs(o.y - b.min_y) > 1000
                     IN f[i - 1]
                        \o With((IF width_differs
                                 THEN svg_draw_dimension_line(
                                        cfg, o.x, o.y, o.x + o.width, o.y,
                                        -off(perimeter.north, TRUE), TRUE, FALSE, FALSE)
                                      \o svg_draw_dimension_line(
                                        cfg, o.x, o.y + o.length, o.x + o.width,
                                        o.y + o.length,
                                        off(perimeter.south, TRUE), TRUE, FALSE, FALSE)
                                 ELSE <<>>)
                                \o (IF length_differs
                                    THEN svg_draw_dimension_line(
                                           cfg, o.x, o.y, o.x, o.y + o.length,
                                           -off(perimeter.west, FALSE), FALSE, FALSE, FALSE)
                                         \o svg_draw_dimension_line(
                                           cfg, o.x + o.width, o.y, o.x + o.width,
                                           o.y + o.length,
                                           off(perimeter.east, FALSE), FALSE, FALSE, FALSE)
                                    ELSE <<>>),
                                [role |-> "slab-dimension", origin |-> i])
         IN f[Len(objs)]

\* format_dimension of the floor extent raises ValueError when the floor has
\* no slab, beam, room or wall: the bounds are then infinite and a length NaN
FloorPlanRaises(cfg, objs) ==
    cfg.dimensions.show_outer_dimensions /\ ~HasBounds(objs)

\* the elements of the floor plan: slabs, beams, staircases, rooms and
\* walls, doors and windows, opening dimensions, edge dimensions, room
\* labels, slab dimensions, and the pillars last
FloorPlanElements(cfg, objs) ==
    PlanShapes(cfg, objs, {"floor_slab"}, 1)
    \o PlanShapes(cfg, objs, {"beam"}, 1)
    \o PlanShapes(cfg, objs, {"staircase"}, 1)
    \o PlanShapes(cfg, objs, {"room", "wall"}, 1)
    \o PlanShapes(cfg, objs, {"door", "window"}, 1)
    \o OpeningDimensions(cfg, objs)
    \o EdgeDimensions(cfg, objs)
    \o RoomLabels(cfg, objs)
    \o SlabDimensions(cfg, objs)
    \o PlanShapes(cfg, objs, {"pillar"}, 1)

(***************************************************************************)
(* create_wall and create_room of the 3D library                           *)
(* (src/konkan_house_lib.py, src/konkan_house_lib_old.py).  Keyword        *)
(* arguments are a record `kw`; an argument that is None is an absent key. *)
(* A created object is a record of what the Blender object is built from;  *)
(* its fields name, start_x .. end_y repeat the arguments of the call.     *)
(***************************************************************************)
inkscape_to_blender(cfg, x, y, z) ==
    <<to_meters(cfg, x), to_meters(cfg, -y), to_meters(cfg, z) + cfg.ground_level_z>>

\* math.atan2(-dy, dx) in degrees, for a wall along an axis
WallAngle(dx, dy) ==
    CASE dy = 0 /\ dx > 0 -> 0
      [] dy = 0 /\ dx < 0 -> 180
      [] dx = 0 /\ dy > 0 -> -90
      [] dx = 0 /\ dy < 0 -> 90

\* the 8 vertices of _create_sloped_wall, bottom face then top face
SlopedWallVerts(cfg, start_x, start_y, end_x, end_y, bottom_z, height_start, height_end, thickness) ==
    LET perp_x == -Sign(end_y - start_y)
        perp_y == Sign(end_x - start_x)
        half_thick == thickness \div 2
    IN << inkscape_to_blender(cfg, start_x - perp_x * half_thick,
                              start_y - perp_y * half_thick, bottom_z),
          inkscape_to_blender(cfg, start_x + perp_x * half_thick,
                              start_y + perp_y * half_thick, bottom_z),
          inkscape_to_blender(cfg, end_x + perp_x * half_thick,
                              end_y + perp_y * half_thick, bottom_z),
          inkscape_to_blender(cfg, end_x - perp_x * half_thick,
                              end_y - perp_y * half_thick, bottom_z),
          inkscape_to_blender(cfg, start_x - perp_x * half_thick,
                              start_y - perp_y * half_thick, bottom_z + height_start),
          inkscape_to_blender(cfg, start_x + perp_x * half_thick,
                              start_y + perp_y * half_thick, bottom_z + height_start),
          inkscape_to_blender(cfg, end_x + perp_x * half_thick,
                              end_y + perp_y * half_thick, bottom_z + height_end),
          inkscape_to_blender(cfg, end_x - perp_x * half_thick,
                              end_y - perp_y * half_thick, bottom_z + height_end) >>

\* create_wall for a wall along an axis, where sqrt(dx^2 + dy^2) is
\* |dx| + |dy|.  A wall of length 0 is not created: the result is None.
create_wall(cfg, start_x, start_y, end_x, end_y, kw) ==
    LET floor_number == Get(kw, "floor_number", 0)
        height == Get(kw, "height",
                      Get(cfg.floor_heights, floor_number, DefaultFloorHeight))
        height_end == Get(kw, "height_end", height)
        thickness == Get(kw, "thickness", cfg.wall_thickness)
        dx == end_x - start_x
        dy == end_y - start_y
        length == Abs(dx) + Abs(dy)
        is_sloped == Abs(height_end - height) > 10
        z_offset_units == get_floor_z_offset(cfg, floor_number) \div (to_meters(cfg, 1000) \div 1000)
        wall_bottom_z_units == z_offset_units + cfg.floor_slab_thickness
        call == [name |-> kw.name, start_x |-> start_x, start_y |-> start_y,
                 end_x |-> end_x, end_y |-> end_y]
    IN IF length = 0 THEN call @@ [object |-> "None"]
       ELSE IF is_sloped
       THEN call @@ [object |-> "mesh",
                     verts |-> SlopedWallVerts(cfg, start_x, start_y, end_x, end_y,
                                               wall_bottom_z_units, height,
                                               height_end, thickness)]
       ELSE call @@ [object |-> "box",
                     location |-> inkscape_to_blender(cfg, (start_x + end_x) \div 2,
                                                      (start_y + end_y) \div 2,
                                                      wall_bottom_z_units + height \div 2),
                     dimensions |-> <<to_meters(cfg, length), to_meters(cfg, thickness),
                                      to_meters(cfg, height)>>,
                     rotation |-> WallAngle(dx, dy)]

\* the keyword arguments create_room passes on for the wall `suffix`
RoomWallKw(name, suffix, floor_number, heights, wall_thickness) ==
    [name |-> name \o <<suffix>>, floor_number |-> floor_number,
     thickness |-> wall_thickness] @@ heights

\* the four create_wall calls of create_room, north, south, east, west in
\* this order, each made if the lowered `walls` has it; heights[d] is the
\* height / height_end the call for side d is given
RoomWallCalls(cfg, name, x, y, width, length, floor_number, t, sides, heights) ==
    (IF "north" \in sides
     THEN <<create_wall(cfg, x, y + t \div 2, x + width, y + t \div 2,
                        RoomWallKw(name, "North", floor_number, heights.north, t))>>
     ELSE <<>>)
    \o (IF "south" \in sides
        THEN <<create_wall(cfg, x, y + length - t \div 2,
                           x + width, y + length - t \div 2,
                           RoomWallKw(name, "South", floor_number, heights.south, t))>>
        ELSE <<>>)
    \o (IF "east" \in sides
        THEN <<create_wall(cfg, x + width - t \div 2, y + t,
                           x + width - t \div 2, y + length - t,
                           RoomWallKw(name, "East", floor_number, heights.east, t))>>
        ELSE <<>>)
    \o (IF "west" \in sides
        THEN <<create_wall(cfg, x + t \div 2, y + t,
                           x + t \div 2, y + length - t,
                           RoomWallKw(name, "West", floor_number, heights.west, t))>>
        ELSE <<>>)

\* height=height as create_room passes it on: absent when it is None
HeightKw(kw) == IF Has(kw, "height") THEN [height |-> kw.height] ELSE <<>>

\* create_room of konkan_house_lib.py: the list created_walls
create_room(cfg, name, x, y, width, length, kw) ==
    LET wall_thickness == Get(kw, "wall_thickness", cfg.wall_thickness)
        walls == Get(kw, "walls", Directions)
    IN RoomWallCalls(cfg, name, x, y, width, length, Get(kw, "floor_number", 0),
                     wall_thickness,
                     {Lower(walls[i]) : i \in 1..Len(walls)},
                     [d \in {"north", "south", "east", "west"} |-> HeightKw(kw)])

\* get_wall_height of konkan_house_lib_old.py; an entry of wall_heights is
\* [value |-> h] for a number h and a record of start / end for a dict
get_wall_height(kw, wall_name) ==
    IF Has(kw, "wall_heights") /\ Has(kw.wall_heights, wall_name)
    THEN LET wall_config == kw.wall_heights[wall_name]
         IN IF Has(wall_config, "value")
            THEN [height |-> wall_config.value]
            ELSE (IF Has(wall_config, "start")
                  THEN [height |-> wall_config.start] ELSE HeightKw(kw))
                 @@ (IF Has(wall_config, "end")
                     THEN [height_end |-> wall_config.end]
                     ELSE IF Has(kw, "height")
                          THEN [height_end |-> kw.height] ELSE <<>>)
    ELSE HeightKw(kw)

\* create_room of konkan_house_lib_old.py: the list created_walls
create_room_old(cfg, name, x, y, width, length, kw) ==
    LET wall_thickness == Get(kw, "wall_thickness", cfg.wall_thickness)
        walls == Get(kw, "walls", Directions)
    IN RoomWallCalls(cfg, name, x, y, width, length, Get(kw, "floor_number", 0),
                     wall_thickness,
                     {Lower(walls[i]) : i \in 1..Len(walls)},
                     [d \in {"north", "south", "east", "west"} |->
                        get_wall_height(kw, d)])

(***************************************************************************)
(* Each specification drives one entry point; the variables of the other   *)
(* entry points keep their idle values.                                    *)
(***************************************************************************)
Idle(g) ==
    /\ IF g = "pack" THEN TRUE
       ELSE edges = <<>> /\ is_horizontal = TRUE /\ edge_levels = EmptyDict
    /\ IF g = "edges" THEN TRUE ELSE floor_edges = EmptyEdges
    /\ IF g \in {"edges", "plan"} THEN TRUE ELSE floor_config = <<>>
    /\ IF g = "plan" THEN TRUE ELSE plan_svg = <<>>
    /\ IF g = "z" THEN TRUE ELSE z_offsets = <<>>
    /\ IF g \in {"z", "elev", "plan", "room"} THEN TRUE
       ELSE GLOBAL_CONFIG = DefaultGlobalConfig
    /\ IF g = "room" THEN TRUE
       ELSE /\ room_config = <<>>
            /\ room_floor = 0
            /\ room_done = {}
            /\ room_svg = <<>>
            /\ created_walls = <<>>
            /\ created_walls_old = <<>>
    /\ IF g = "elev" THEN TRUE
       ELSE /\ view_type = "front"
            /\ house_config = [plinth |-> <<>>, floors |-> <<>>]
            /\ all_objects_to_draw = <<>>
            /\ svg = <<>>
            /\ output_path = NoPath
            /\ output_dir_exists = TRUE
            /\ files = <<>>

Frame(g) ==
    /\ IF g = "pack" THEN TRUE ELSE UNCHANGED packVars
    /\ IF g = "edges" THEN TRUE ELSE UNCHANGED edgeVars
    /\ IF g \in {"edges", "plan"} THEN TRUE ELSE UNCHANGED floor_config
    /\ IF g = "plan" THEN TRUE ELSE UNCHANGED planVars
    /\ IF g = "z" THEN TRUE ELSE UNCHANGED zVars
    /\ IF g = "elev" THEN TRUE ELSE UNCHANGED elevVars
    /\ IF g = "room" THEN TRUE ELSE UNCHANGED roomVars
    /\ UNCHANGED GLOBAL_CONFIG

(***************************************************************************)
(* Inputs of assign_dimension_offset_levels.  Its callers                  *)
(* (generate_floor_plan_svg, lines 1179-1182) pass the perimeter lists of   *)
(* classify_perimeter_edges, which are values of the dicts built by         *)
(* extract_floor_edges: horizontal edges for is_horizontal = True, vertical *)
(* edges otherwise, no two with the same normalized key.  A standalone wall *)
(* keeps its declared endpoint order (line 372), so an edge may run from    *)
(* its larger coordinate to its smaller one.                                *)
(***************************************************************************)
MaxEdges == 4

AxisCoords == {0, 5000, 10000, 15000, 20000}
SpanLengths == {5000, 10000}

\* an edge that spans a1 -> a2 on the spanning axis at constant coordinate c
AxisEdge(a1, a2, c, h) ==
    IF h THEN [x1 |-> a1, y1 |-> c, x2 |-> a2, y2 |-> c]
         ELSE [x1 |-> c, y1 |-> a1, x2 |-> c, y2 |-> a2]

EdgeUniverse(h) ==
    {AxisEdge(a1, a2, 0, h) :
        <<a1, a2>> \in {p \in AxisCoords \X AxisCoords : Abs(p[1] - p[2]) \in SpanLengths}}

DistinctKeys(es) ==
    \A i, j \in 1..Len(es) : i # j => EdgeKey(es[i]) # EdgeKey(es[j])

EdgeLists(h) ==
    {es \in UNION {[1..n -> EdgeUniverse(h)] : n \in 0..MaxEdges} : DistinctKeys(es)}

\* three edges on one line with spans [0,50], [30,80], [100,150]
ExampleEdges(h) ==
    <<AxisEdge(0, 50000, 0, h), AxisEdge(30000, 80000, 0, h), AxisEdge(100000, 150000, 0, h)>>

InitPack ==
    /\ pc = "start"
    /\ is_horizontal \in BOOLEAN
    /\ edges \in EdgeLists(is_horizontal) \cup {ExampleEdges(is_horizontal)}
    /\ edge_levels = EmptyDict
    /\ Idle("pack")

\* one call of assign_dimension_offset_levels(edges, is_horizontal)
AssignLevels ==
    /\ pc = "start"
    /\ edge_levels' = assign_dimension_offset_levels(edges, is_horizontal)
    /\ pc' = "done"
    /\ UNCHANGED <<edges, is_horizontal>>
    /\ Frame("pack")

NextPack == AssignLevels

SpecPack == InitPack /\ [][NextPack]_vars

(***************************************************************************)
(* Claims about assign_dimension_offset_levels                             *)
(***************************************************************************)
\* the conflict relation of the claims: start/end are min/max of the two
\* endpoint coordinates on the spanning axis, the tolerance is 5 units
Conflict(a, b, h) ==
    /\ EdgeStart(a, h) < EdgeEnd(b, h) + 5000
    /\ EdgeEnd(a, h) > EdgeStart(b, h) - 5000

LevelOf(e) == edge_levels[EdgeKey(e)]

\* C1: after assign_dimension_offset_levels returns, any two distinct edges
\* of the list that received the same level do not conflict under the
\* 5-unit gap tolerance.
C1_SameLevelNoConflict ==
    pc = "done" =>
        \A i, j \in 1..Len(edges) :
            (i # j /\ LevelOf(edges[i]) = LevelOf(edges[j]))
                => ~Conflict(edges[i], edges[j], is_horizontal)

\* C1 witness: a call has returned in which two edges share a level, two
\* other edges had to be separated, and one edge was declared from its
\* larger coordinate to its smaller one.
C1_Witness ==
    /\ pc = "done"
    /\ \E i, j \in 1..Len(edges) : i # j /\ LevelOf(edges[i]) = LevelOf(edges[j])
    /\ \E i, j \in 1..Len(edges) : LevelOf(edges[i]) # LevelOf(edges[j])
    /\ \E i \in 1..Len(edges) :
            PackSortKey(edges[i], is_horizontal)[1] > PackSortKey(edges[i], is_horizontal)[2]

NumLevels == Cardinality({edge_levels[k] : k \in DOMAIN edge_levels})

\* some assignment of the edges to k levels has no two conflicting edges on
\* one level
Packable(es, h, k) ==
    \E f \in [1..Len(es) -> 1..k] :
        \A i, j \in 1..Len(es) :
            (i # j /\ f[i] = f[j]) => ~Conflict(es[i], es[j], h)

MinLevels(es, h) ==
    CHOOSE k \in 0..Len(es) :
        Packable(es, h, k) /\ \A j \in 0..(k - 1) : ~Packable(es, h, j)

\* C2: the number of distinct levels returned is the minimum number of
\* levels for which a conflict-free assignment exists, whatever the
\* declared order of each edge's endpoints.
C2_MinimumLevels ==
    pc = "done" => NumLevels = MinLevels(edges, is_horizontal)

(***************************************************************************)
(* extract_floor_edges on a floor of rooms and standalone walls            *)
(***************************************************************************)
MaxObjects == 3

Wall(n, x1, y1, x2, y2) ==
    [type |-> "wall", name |-> n, start_x |-> x1, start_y |-> y1,
     end_x |-> x2, end_y |-> y2]

Room(n, x, y, w, l, ws) ==
    [type |-> "room", name |-> n, x |-> x, y |-> y, width |-> w, length |-> l,
     walls |-> ws]

\* endpoints a few thousandths apart, so that rounding to two decimals and
\* the 0.01 axis test both matter
EdgePoints == {<<0, 0>>, <<1000, 0>>, <<1000, 4>>, <<6, 1000>>, <<1000, 1000>>}

EdgeObjects ==
    {Wall(<<"W">>, p[1], p[2], q[1], q[2]) : p \in EdgePoints, q \in EdgePoints}
    \cup {Room(<<"R">>, 0, 0, 1000, 1000, <<"north", "West">>),
          Room(<<"R">>, 0, 0, 1000, 1000, <<"north", "south", "east", "west">>)}

InitEdges ==
    /\ pc = "start"
    /\ floor_config \in UNION {[1..n -> EdgeObjects] : n \in 0..MaxObjects}
    /\ floor_edges = EmptyEdges
    /\ Idle("edges")

\* one call of extract_floor_edges(floor_config)
ExtractEdges ==
    /\ pc = "start"
    /\ floor_edges' = extract_floor_edges(floor_config)
    /\ pc' = "done"
    /\ UNCHANGED floor_config
    /\ Frame("edges")

NextEdges == ExtractEdges

SpecEdges == InitEdges /\ [][NextEdges]_vars

(***************************************************************************)
(* Claims about normalize_edge_key and extract_floor_edges                 *)
(***************************************************************************)
WallIndices == {i \in 1..Len(floor_config) : floor_config[i].type = "wall"}

WallKey(o) == normalize_edge_key(o.start_x, o.start_y, o.end_x, o.end_y)
WallKeyReversed(o) == normalize_edge_key(o.end_x, o.end_y, o.start_x, o.start_y)

Reversed(a, b) ==
    /\ a.start_x = b.end_x /\ a.start_y = b.end_y
    /\ a.end_x = b.start_x /\ a.end_y = b.start_y

EdgeDict(kind) ==
    IF kind = "horizontal" THEN floor_edges.horizontal ELSE floor_edges.vertical

\* C3: normalize_edge_key gives the same key for an edge and for the edge
\* with its endpoints exchanged, and two axis-aligned walls of a floor that
\* describe one boundary from opposite directions are written to the same
\* dict under that one key, so they occupy a single entry (the later wall's).
C3_EdgeKeySymmetric ==
    pc = "done" =>
        /\ \A i \in WallIndices : WallKey(floor_config[i]) = WallKeyReversed(floor_config[i])
        /\ \A i, j \in WallIndices :
              (i < j /\ Reversed(floor_config[i], floor_config[j])
                     /\ WallKind(floor_config[i]) # "none")
              => /\ WallKind(floor_config[i]) = WallKind(floor_config[j])
                 /\ WallKey(floor_config[i]) = WallKey(floor_config[j])
                 /\ Cardinality({n \in 1..Len(EdgeDict(WallKind(floor_config[i]))) :
                        EdgeDict(WallKind(floor_config[i]))[n].key = WallKey(floor_config[i])}) = 1

\* C3 witness: extract_floor_edges has run on a floor with a wall and the
\* same wall declared the other way round, of non-zero length, with an
\* endpoint that rounding moves, and the dicts hold fewer entries than the
\* floor has walls.
C3_Witness ==
    /\ pc = "done"
    /\ \E i, j \in WallIndices :
          /\ i < j /\ Reversed(floor_config[i], floor_config[j])
          /\ WallKind(floor_config[i]) # "none"
          /\ floor_config[i].start_x # floor_config[i].end_x
          /\ Round2(floor_config[i].start_y) # floor_config[i].start_y
    /\ Len(floor_edges.horizontal) + Len(floor_edges.vertical) < Cardinality(WallIndices)

(***************************************************************************)
(* get_floor_z_offset called for the floors of a house, in any order       *)
(***************************************************************************)
MaxFloor == 3

FloorNumbers == 0..MaxFloor

PartialMaps(D, R) == UNION {[S -> R] : S \in SUBSET D}

GlobalConfigs ==
    [units_to_meters_ratio : {3048, 1000}, scale_factor : {10, 5},
     floor_heights : PartialMaps(0..(MaxFloor - 1), {0, 9000, 10000}),
     floor_slab_thickness : {0, 330}, plinth_height : {0, 1500},
     ground_level_z : {DefaultGlobalConfig.ground_level_z},
     wall_thickness : {DefaultGlobalConfig.wall_thickness},
     dimensions : {DefaultGlobalConfig.dimensions},
     elevation_rendering_priority : {DefaultGlobalConfig.elevation_rendering_priority}]

InitZ ==
    /\ pc = "start"
    /\ GLOBAL_CONFIG \in GlobalConfigs
    /\ z_offsets = <<>>
    /\ Idle("z")

\* one call get_floor_z_offset(floor_number); the result is kept per floor
GetFloorZOffset ==
    /\ pc = "start"
    /\ \E floor_number \in FloorNumbers \ DOMAIN z_offsets :
          z_offsets' = z_offsets @@
              (floor_number :> get_floor_z_offset(GLOBAL_CONFIG, floor_number))
    /\ UNCHANGED pc
    /\ Frame("z")

NextZ == GetFloorZOffset

SpecZ == InitZ /\ [][NextZ]_vars

\* the wall height of floor n as the configuration gives it: its own entry of
\* floor_heights, floor 0's entry when it has none
ConfiguredWallHeight(n) ==
    IF n \in DOMAIN GLOBAL_CONFIG.floor_heights THEN GLOBAL_CONFIG.floor_heights[n]
    ELSE IF 0 \in DOMAIN GLOBAL_CONFIG.floor_heights THEN GLOBAL_CONFIG.floor_heights[0]
    ELSE DefaultFloorHeight

\* C4: whenever floor n has positive wall height (a floor missing from
\* floor_heights takes floor 0's), get_floor_z_offset(n+1) is strictly
\* greater than get_floor_z_offset(n).
C4_ZOffsetIncreasing ==
    \A n \in DOMAIN z_offsets :
        (n + 1 \in DOMAIN z_offsets /\ ConfiguredWallHeight(n) > 0)
        => z_offsets[n + 1] > z_offsets[n]

\* C4 witness: the offsets of a floor missing from floor_heights and of the
\* floor above it have been computed, floor 0 is positive, the slab adds
\* nothing, and some other floor has zero height.
C4_Witness ==
    \E n \in DOMAIN z_offsets :
        /\ n + 1 \in DOMAIN z_offsets
        /\ n \notin DOMAIN GLOBAL_CONFIG.floor_heights
        /\ 0 \in DOMAIN GLOBAL_CONFIG.floor_heights
        /\ GLOBAL_CONFIG.floor_heights[0] > 0
        /\ GLOBAL_CONFIG.floor_slab_thickness = 0
        /\ \E m \in DOMAIN GLOBAL_CONFIG.floor_heights : GLOBAL_CONFIG.floor_heights[m] = 0
        /\ z_offsets[n + 1] > z_offsets[n]

(***************************************************************************)
(* generate_elevation_view on houses of one or two floors                  *)
(***************************************************************************)
MaxElevObjects == 3

\* GLOBAL_CONFIG after house_config.py has updated it
HouseGlobalConfig ==
    [DefaultGlobalConfig EXCEPT
        !.units_to_meters_ratio = 1000, !.wall_thickness = 8000,
        !.floor_slab_thickness = 8000, !.plinth_height = 30000,
        !.floor_heights = (0 :> 100000 @@ 1 :> 100000 @@ 2 :> 42000 @@ 3 :> 50000)]

ElevRooms ==
    {[type |-> "room", name |-> <<"A">>, x |-> 0, y |-> 0, width |-> 100000,
      length |-> 100000, walls |-> <<"north", "south", "east", "west">>],
     [type |-> "room", name |-> <<"B">>, x |-> 0, y |-> 100000, width |-> 100000,
      length |-> 100000, walls |-> <<"North", "West">>, height |-> 50000]}

\* standalone walls: sloped from or to nothing, sloped from the floor height,
\* flat; declared in either direction; one a little off its axis; one diagonal
ElevWalls ==
    {[type |-> "wall", name |-> <<"W1">>, start_x |-> 0, start_y |-> 50000,
      end_x |-> 100000, end_y |-> 50000, height |-> 0, height_end |-> 47000],
     [type |-> "wall", name |-> <<"W2">>, start_x |-> 100000, start_y |-> 50000,
      end_x |-> 0, end_y |-> 49500, height_end |-> 47000],
     [type |-> "wall", name |-> <<"W3">>, start_x |-> 50000, start_y |-> 0,
      end_x |-> 50000, end_y |-> 100000, height |-> 30000, height_end |-> 0],
     [type |-> "wall", name |-> <<"W4">>, start_x |-> 50000, start_y |-> 100000,
      end_x |-> 49500, end_y |-> 0, height |-> 60000],
     [type |-> "wall", name |-> <<"W5">>, start_x |-> 0, start_y |-> 0,
      end_x |-> 100000, end_y |-> 100000, height |-> 0, height_end |-> 47000]}

ElevOthers ==
    {[type |-> "floor_slab", name |-> <<"S">>, x |-> 0, y |-> 0,
      width |-> 300000, length |-> 300000],
     [type |-> "beam", name |-> <<"Bm">>, x |-> 0, y |-> 100000,
      width |-> 100000, length |-> 8000],
     [type |-> "staircase", name |-> <<"St">>, x |-> 100000, y |-> 0,
      width |-> 30000, length |-> 100000, num_steps |-> 10],
     [type |-> "pillar", name |-> <<"P1">>, x |-> 10000, y |-> 10000],
     [type |-> "pillar", name |-> <<"P2">>, x |-> 9000, y |-> 9000,
      size |-> 6000, height |-> 50000]}

ElevOpenings ==
    {[type |-> "door", room |-> <<"A">>, direction |-> "south", x |-> 20000,
      y |-> 100000, width |-> 30000, height |-> 70000],
     [type |-> "window", wall |-> <<"W1">>, x |-> 10000, y |-> 50000,
      width |-> 20000, height |-> 30000],
     [type |-> "door", wall |-> <<"Nowhere">>, x |-> 10000, y |-> 10000,
      width |-> 30000, height |-> 70000],
     [type |-> "window", room |-> <<"Q">>, direction |-> "west", x |-> 0,
      y |-> 60000, width |-> 20000, height |-> 30000],
     [type |-> "window", wall_name |-> <<"W3">>, x |-> 50000, y |-> 40000,
      width |-> 25000, height |-> 30000, sill_height |-> 10000],
     [type |-> "door", room |-> <<"A">>, direction |-> "south", x |-> 55000,
      y |-> 100000, width |-> 30000, height |-> 70000]}

ElevObjects == ElevRooms \cup ElevWalls \cup ElevOthers \cup ElevOpenings

\* a list of objects, the first k on floor 0 and the others, if any, on floor 1
House(objs, k) ==
    [plinth |-> [x |-> 0, y |-> 0, width |-> 300000, length |-> 300000,
                 height |-> 30000],
     floors |->
        IF k = Len(objs)
        THEN <<[floor_number |-> 0, objects |-> objs]>>
        ELSE <<[floor_number |-> 0, objects |-> SubSeq(objs, 1, k)],
               [floor_number |-> 1, objects |-> SubSeq(objs, k + 1, Len(objs))]>>]

Houses ==
    {House(objs, k) :
        <<objs, k>> \in {p \in (UNION {[1..n -> ElevObjects] : n \in 1..MaxElevObjects})
                                \X (0..MaxElevObjects) : p[2] <= Len(p[1])}}

ViewTypes == {"front", "back", "left", "right"}

\* generate_elevation_view(house_config, view_type): output_path is None
InitElev ==
    /\ pc = "start"
    /\ GLOBAL_CONFIG = HouseGlobalConfig
    /\ view_type \in ViewTypes
    /\ house_config \in Houses
    /\ all_objects_to_draw = <<>>
    /\ svg = <<>>
    /\ output_path = NoPath
    /\ output_dir_exists = TRUE
    /\ files = <<>>
    /\ Idle("elev")

\* one call generate_elevation_view(house_config, view_type, output_path).
\* open() of the output file raises when its directory does not exist.
GenerateElevationView ==
    /\ pc = "start"
    /\ LET entries == AllObjectsToDraw(view_type, GLOBAL_CONFIG, house_config)
           elements == ElevationElements(view_type, GLOBAL_CONFIG, house_config, entries)
           debug == DebugFiles(view_type, GLOBAL_CONFIG, house_config, output_path,
                               output_dir_exists)
       IN /\ all_objects_to_draw' = entries
          /\ IF output_path = NoPath
             THEN svg' = elements /\ files' = debug /\ pc' = "done"
             ELSE IF DirExists(dirname(output_path), output_dir_exists)
             THEN /\ svg' = elements
                  /\ files' = Append(debug, [path |-> output_path, content |-> elements])
                  /\ pc' = "done"
             ELSE svg' = <<>> /\ files' = debug /\ pc' = "raised"
    /\ UNCHANGED <<view_type, house_config, output_path, output_dir_exists>>
    /\ Frame("elev")

NextElev == GenerateElevationView

SpecElev == InitElev /\ [][NextElev]_vars

(***************************************************************************)
(* Claims about the drawing order and the wall shapes of an elevation      *)
(***************************************************************************)
\* origin a comes no later than origin b in the configuration
OriginLe(a, b) ==
    \/ a[1] < b[1]
    \/ a[1] = b[1] /\ PairLe(a[2], a[3], b[2], b[3])

\* C5: two drawn objects with equal (depth, priority) are drawn in the order
\* in which their source objects appear in the configuration: floors in list
\* order, objects in list order within a floor.
C5_TiesInConfigurationOrder ==
    pc = "done" =>
        \A i, j \in 1..Len(all_objects_to_draw) :
            (/\ i < j
             /\ all_objects_to_draw[i].depth = all_objects_to_draw[j].depth
             /\ all_objects_to_draw[i].priority = all_objects_to_draw[j].priority)
            => OriginLe(all_objects_to_draw[i].origin, all_objects_to_draw[j].origin)

\* the standalone walls of the configuration, as <<floor index, object index>>
StandaloneWalls ==
    {p \in (1..Len(house_config.floors)) \X (1..MaxElevObjects) :
        /\ p[2] <= Len(house_config.floors[p[1]].objects)
        /\ house_config.floors[p[1]].objects[p[2]].type = "wall"}

WallObject(p) == house_config.floors[p[1]].objects[p[2]]

\* the wall runs across the view: along x in front/back, along y in left/right
RunsAcrossView(obj) ==
    IF view_type \in {"front", "back"} THEN Abs(obj.end_y - obj.start_y) < 1000
    ELSE Abs(obj.end_x - obj.start_x) < 1000

\* height and height_end of a standalone wall; the floor's wall height
\* stands in for a missing height, the height for a missing height_end
DeclaredHeight(p) ==
    Get(WallObject(p), "height",
        ElevFloorHeight(GLOBAL_CONFIG, house_config.floors[p[1]].floor_number))

DeclaredHeightEnd(p) == Get(WallObject(p), "height_end", DeclaredHeight(p))

ShapesOf(p) ==
    {n \in 1..Len(svg) : /\ svg[n].role = "object"
                          /\ svg[n].origin = <<p[1], p[2], 0>>}

LeftEdgeHeight(el) == el.points[1][2] - el.points[2][2]
RightEdgeHeight(el) == el.points[4][2] - el.points[3][2]

\* C9: a standalone wall that runs across the view and has height h and
\* height_end e with h # e is drawn as one four-point polygon, never as a
\* rectangle; the polygon's left edge has height h and its right edge height
\* e in the back and left views, and they are exchanged in the front and
\* right views.
C9_SlopedWallPolygon ==
    pc = "done" =>
        \A p \in StandaloneWalls :
            (RunsAcrossView(WallObject(p)) /\ DeclaredHeight(p) # DeclaredHeightEnd(p))
            => /\ Cardinality(ShapesOf(p)) = 1
               /\ \A n \in ShapesOf(p) :
                     /\ svg[n].shape = "polygon"
                     /\ Len(svg[n].points) = 4
                     /\ svg[n].points[1][1] = svg[n].points[2][1]
                     /\ svg[n].points[3][1] = svg[n].points[4][1]
                     /\ svg[n].points[1][1] <= svg[n].points[4][1]
                     /\ IF view_type \in {"back", "left"}
                        THEN /\ LeftEdgeHeight(svg[n]) = DeclaredHeight(p)
                             /\ RightEdgeHeight(svg[n]) = DeclaredHeightEnd(p)
                        ELSE /\ LeftEdgeHeight(svg[n]) = DeclaredHeightEnd(p)
                             /\ RightEdgeHeight(svg[n]) = DeclaredHeight(p)

\* C9 witness: a front elevation has been drawn of a house with a wall of
\* height 0 and height_end 47 that runs across the view, and its polygon has
\* a left edge 47 high and a right edge of height 0.
C9_Witness ==
    /\ pc = "done"
    /\ view_type = "front"
    /\ \E p \in StandaloneWalls :
          /\ RunsAcrossView(WallObject(p))
          /\ DeclaredHeight(p) = 0
          /\ DeclaredHeightEnd(p) = 47000
          /\ \E n \in ShapesOf(p) :
                /\ svg[n].shape = "polygon"
                /\ LeftEdgeHeight(svg[n]) = 47000
                /\ RightEdgeHeight(svg[n]) = 0

(***************************************************************************)
(* generate_floor_plan_svg on floors with a room, a wall and openings      *)
(***************************************************************************)
MaxPlanObjects == 4

PlanGlobalConfigs ==
    {[HouseGlobalConfig EXCEPT !.dimensions.show_opening_dimensions = b] :
        b \in BOOLEAN}

\* north-wall openings of room R (inner span 8..92): at the inner start, 2
\* past it, further along, and one that overlaps the last and ends at the
\* inner end; an opening on R's east side, one on the standalone wall W,
\* two that name no wall of the floor, and two windows apart from each other
\* on the standalone wall V, which runs along y
PlanObjects ==
    {[type |-> "room", name |-> <<"R">>, x |-> 0, y |-> 0, width |-> 100000,
      length |-> 100000, walls |-> <<"north", "south", "east", "west">>],
     [type |-> "wall", name |-> <<"W">>, start_x |-> 100000, start_y |-> 150000,
      end_x |-> 0, end_y |-> 150000],
     [type |-> "pillar", name |-> <<"P">>, x |-> 50000, y |-> 50000],
     [type |-> "floor_slab", name |-> <<"S">>, x |-> 0, y |-> 0,
      width |-> 100000, length |-> 150000],
     [type |-> "door", room |-> <<"R">>, direction |-> "north", x |-> 8000,
      y |-> 0, width |-> 30000, height |-> 70000],
     [type |-> "window", room |-> <<"R">>, direction |-> "North", x |-> 10000,
      y |-> 0, width |-> 20000, height |-> 30000],
     [type |-> "door", room |-> <<"R">>, direction |-> "north", x |-> 50000,
      y |-> 0, width |-> 30000, height |-> 70000],
     [type |-> "window", room |-> <<"R">>, direction |-> "north", x |-> 60000,
      y |-> 0, width |-> 32000, height |-> 30000],
     [type |-> "door", room |-> <<"R">>, direction |-> "east", x |-> 100000,
      y |-> 20000, width |-> 30000, height |-> 70000],
     [type |-> "window", wall |-> <<"W">>, x |-> 40000, y |-> 150000,
      width |-> 20000, height |-> 30000],
     [type |-> "door", wall |-> <<"Nowhere">>, direction |-> "south",
      x |-> 10000, y |-> 10000, width |-> 30000, height |-> 70000],
     [type |-> "window", room |-> <<"Q">>, direction |-> "west", x |-> 0,
      y |-> 60000, width |-> 20000, height |-> 30000],
     [type |-> "wall", name |-> <<"V">>, start_x |-> 150000, start_y |-> 0,
      end_x |-> 150000, end_y |-> 100000],
     [type |-> "window", wall |-> <<"V">>, x |-> 150000, y |-> 10000,
      width |-> 20000, height |-> 30000],
     [type |-> "window", wall |-> <<"V">>, x |-> 150000, y |-> 60000,
      width |-> 20000, height |-> 30000]}

InitPlan ==
    /\ pc = "start"
    /\ GLOBAL_CONFIG \in PlanGlobalConfigs
    /\ floor_config \in UNION {[1..n -> PlanObjects] : n \in 0..MaxPlanObjects}
    /\ plan_svg = <<>>
    /\ Idle("plan")

\* one call generate_floor_plan_svg(floor_config)
GenerateFloorPlanSvg ==
    /\ pc = "start"
    /\ IF FloorPlanRaises(GLOBAL_CONFIG, floor_config)
       THEN plan_svg' = <<>> /\ pc' = "raised"
       ELSE plan_svg' = FloorPlanElements(GLOBAL_CONFIG, floor_config) /\ pc' = "done"
    /\ UNCHANGED floor_config
    /\ Frame("plan")

NextPlan == GenerateFloorPlanSvg

SpecPlan == InitPlan /\ [][NextPlan]_vars

(***************************************************************************)
(* Claims about the opening dimensions of a floor plan                     *)
(***************************************************************************)
PlanWalls == OKeys(WallBounds(floor_config))

Openings == {i \in 1..Len(floor_config) : floor_config[i].type \in {"door", "window"}}

\* the openings attached to wall w
Attached(w) == {i \in Openings : PlanWallName(floor_config[i]) = w}

\* the opening dimensions drawn for wall w
DimsOf(w, parts) ==
    {n \in 1..Len(plan_svg) : /\ plan_svg[n].shape = "opening-dimension"
                               /\ plan_svg[n].wall = w
                               /\ plan_svg[n].part \in parts}

DimParts == {"gap", "width", "final"}

RECURSIVE SumLengths(_)
SumLengths(S) ==
    IF S = {} THEN 0
    ELSE LET n == CHOOSE m \in S : TRUE
         IN plan_svg[n].length + SumLengths(S \ {n})

EmittedSum(w) == SumLengths(DimsOf(w, DimParts))

InnerSpan(w) ==
    OGet(WallBounds(floor_config), w).end - OGet(WallBounds(floor_config), w).start
    - 2 * GLOBAL_CONFIG.wall_thickness

OpeningPassDone ==
    pc = "done" /\ GLOBAL_CONFIG.dimensions.show_opening_dimensions

\* C6 as stated: for a wall with k >= 1 attached openings, the lengths of
\* all gap and width dimensions emitted for it add up to the wall's inner
\* span.
C6_ChainSumsToInnerSpan ==
    OpeningPassDone =>
        \A w \in PlanWalls : Attached(w) # {} => EmittedSum(w) = InnerSpan(w)

\* the gaps of wall w as the configuration gives them: from the inner start
\* to the first opening, between consecutive openings, and from the last
\* opening to the inner end
SortedOpenings(w) == OGet(OpeningsByWall(floor_config), w)

PosOf(w, i) == OpeningPos(OGet(WallBounds(floor_config), w).direction, floor_config[i])

TrueGaps(w) ==
    LET idx == SortedOpenings(w)
        wi == OGet(WallBounds(floor_config), w)
        t == GLOBAL_CONFIG.wall_thickness
    IN [m \in 1..(Len(idx) + 1) |->
          (IF m = Len(idx) + 1 THEN wi.end - t ELSE PosOf(w, idx[m]))
          - (IF m = 1 THEN wi.start + t
             ELSE PosOf(w, idx[m - 1]) + floor_config[idx[m - 1]].width)]

\* the openings lie in order inside the inner span and do not overlap
WellPlaced(w) == \A m \in 1..Len(TrueGaps(w)) : TrueGaps(w)[m] >= 0

RECURSIVE SumSmall(_, _)
SumSmall(gaps, m) ==
    IF m = 0 THEN 0
    ELSE (IF gaps[m] <= GapThreshold THEN gaps[m] ELSE 0) + SumSmall(gaps, m - 1)

OmittedGaps(w) == SumSmall(TrueGaps(w), Len(TrueGaps(w)))

\* C6 amended: for a wall with k >= 1 attached openings that lie in order
\* inside the wall's inner span without overlapping, the emitted gap and
\* width dimensions add up to the inner span minus the gaps of at most 5
\* units, which are not emitted; so the sum is the inner span when every
\* omitted gap is 0, and falls short of it by at most 5 per gap otherwise.
C6_ChainSumsToInnerSpanLessOmitted ==
    OpeningPassDone =>
        \A w \in PlanWalls :
            (Attached(w) # {} /\ WellPlaced(w))
            => /\ EmittedSum(w) = InnerSpan(w) - OmittedGaps(w)
               /\ EmittedSum(w) <= InnerSpan(w)
               /\ EmittedSum(w) >= InnerSpan(w) - GapThreshold * (Cardinality(Attached(w)) + 1)

\* C6 witness: the pass has run on a wall with two well-placed openings, the
\* first 2 units from the inner start, and what it emitted is 2 short of the
\* inner span.
C6_Witness ==
    /\ OpeningPassDone
    /\ \E w \in PlanWalls :
          /\ Cardinality(Attached(w)) = 2
          /\ WellPlaced(w)
          /\ TrueGaps(w)[1] = 2000
          /\ Cardinality(DimsOf(w, {"gap", "final"})) = 2
          /\ EmittedSum(w) = InnerSpan(w) - 2000

\* C7: for a wall with k attached openings the pass emits exactly k width
\* dimensions, one per opening, and at most k+1 gap dimensions: at most one
\* before each opening and at most one final gap; a wall with no openings
\* gets no opening dimension.
C7_ChainCounts ==
    OpeningPassDone =>
        \A w \in PlanWalls :
            /\ Cardinality(DimsOf(w, {"width"})) = Cardinality(Attached(w))
            /\ Cardinality(DimsOf(w, {"gap", "final"})) <= Cardinality(Attached(w)) + 1
            /\ Cardinality(DimsOf(w, {"final"})) <= 1
            /\ \A i \in Attached(w) :
                  /\ Cardinality({n \in DimsOf(w, {"width"}) : plan_svg[n].origin = i}) = 1
                  /\ Cardinality({n \in DimsOf(w, {"gap"}) : plan_svg[n].origin = i}) <= 1
            /\ Attached(w) = {} => DimsOf(w, DimParts) = {}

\* C7 witness: the pass has run on a floor where one wall has two openings
\* and all three gaps drawn, another wall has two openings and fewer gaps
\* than openings, and a third wall has no opening and no dimension.
C7_Witness ==
    /\ OpeningPassDone
    /\ \E w \in PlanWalls :
          /\ Cardinality(Attached(w)) = 2
          /\ Cardinality(DimsOf(w, {"width"})) = 2
          /\ Cardinality(DimsOf(w, {"gap", "final"})) = 3
    /\ \E w \in PlanWalls :
          /\ Cardinality(Attached(w)) = 1
          /\ Cardinality(DimsOf(w, {"gap", "final"})) = 2
    /\ \E w \in PlanWalls : Attached(w) = {} /\ DimsOf(w, DimParts) = {}

\* the doors and windows that name no wall of the floor
Unresolved == {i \in Openings : PlanWallName(floor_config[i]) \notin PlanWalls}

\* the floor without the object at index i, and the elements drawn for the
\* other objects with their origins counted on that floor
Without(objs, i) == SubSeq(objs, 1, i - 1) \o SubSeq(objs, i + 1, Len(objs))

ElementsOfOthers(i) ==
    LET rest == SelectSeq(plan_svg, LAMBDA e : e.origin # i)
    IN [n \in 1..Len(rest) |->
          [rest[n] EXCEPT !.origin = IF @ > i THEN @ - 1 ELSE @]]

\* C10: for a door or window that names a wall which does not exist on the
\* floor, the floor plan contains neither its rectangle nor an opening
\* dimension for it, and every other object is emitted as if the opening
\* were absent.
C10_UnresolvedOpeningOmitted ==
    pc = "done" =>
        \A i \in Unresolved :
            /\ \A n \in 1..Len(plan_svg) : plan_svg[n].origin # i
            /\ ElementsOfOthers(i) = FloorPlanElements(GLOBAL_CONFIG, Without(floor_config, i))

\* what does hold for such an opening: no opening dimension is drawn for
\* it, and the other objects are emitted as if it were absent
UnresolvedOpeningNotDimensioned ==
    pc = "done" =>
        \A i \in Unresolved :
            /\ \A n \in 1..Len(plan_svg) :
                  plan_svg[n].origin = i => plan_svg[n].shape = "rect"
            /\ ElementsOfOthers(i) = FloorPlanElements(GLOBAL_CONFIG, Without(floor_config, i))

(***************************************************************************)
(* SpecRoom: one room object of a floor is drawn by svg_draw_room as       *)
(* generate_floor_plan_svg calls it, and built by create_room of each      *)
(* library, in any order.                                                  *)
(***************************************************************************)
MaxRoomCells == 5

RoomSizes == {4000 * k : k \in 1..MaxRoomCells} \cup {100000}

RoomOptions ==
    {a @@ b @@ c @@ d :
        a \in {<<>>, [walls |-> <<"north", "east">>], [walls |-> <<"south", "west">>],
               [walls |-> <<"North", "South", "East", "West">>]},
        b \in {<<>>, [wall_thickness |-> 6000]},
        c \in {<<>>, [height |-> 50000]},
        d \in {<<>>, [wall_heights |-> [north |-> [value |-> 60000]]],
               [wall_heights |-> [east |-> [start |-> 0, end |-> 47000],
                                  west |-> [end |-> 47000],
                                  north |-> [start |-> 30000]]]}}

RoomConfigs ==
    {[type |-> "room", name |-> <<"R">>, x |-> x, y |-> y, width |-> w, length |-> l] @@ o :
        x \in {0, 10000}, y \in {0, 6000}, w \in RoomSizes, l \in RoomSizes,
        o \in RoomOptions}

\* the house configuration at half scale
RoomGlobalConfig == [HouseGlobalConfig EXCEPT !.scale_factor = 5]

RoomCalls == {"svg_draw_room", "create_room", "create_room_old"}

InitRoom ==
    /\ pc = "start"
    /\ GLOBAL_CONFIG = RoomGlobalConfig
    /\ room_config \in RoomConfigs
    /\ room_floor \in {0, 1}
    /\ room_done = {}
    /\ room_svg = <<>>
    /\ created_walls = <<>>
    /\ created_walls_old = <<>>
    /\ Idle("room")

RoomCalled(call) ==
    /\ call \notin room_done
    /\ room_done' = room_done \cup {call}
    /\ pc' = IF room_done' = RoomCalls THEN "done" ELSE "start"
    /\ UNCHANGED <<room_config, room_floor>>
    /\ Frame("room")

\* generate_floor_plan_svg's call of svg_draw_room for the room object
SvgDrawRoom ==
    /\ RoomCalled("svg_draw_room")
    /\ room_svg' = svg_draw_room(room_config.x, room_config.y, room_config.width,
                                 room_config.length,
                                 Get(room_config, "wall_thickness",
                                     GLOBAL_CONFIG.wall_thickness),
                                 Get(room_config, "walls", Directions))
    /\ UNCHANGED <<created_walls, created_walls_old>>

\* the keyword arguments a room object gives create_room on floor room_floor
RoomKw == room_config @@ [floor_number |-> room_floor]

\* create_room of konkan_house_lib.py, which has no wall_heights argument
CreateRoom ==
    /\ RoomCalled("create_room")
    /\ created_walls' = create_room(GLOBAL_CONFIG, room_config.name, room_config.x,
                                    room_config.y, room_config.width,
                                    room_config.length, RoomKw)
    /\ UNCHANGED <<room_svg, created_walls_old>>

\* create_room of konkan_house_lib_old.py
CreateRoomOld ==
    /\ RoomCalled("create_room_old")
    /\ created_walls_old' = create_room_old(GLOBAL_CONFIG, room_config.name,
                                            room_config.x, room_config.y,
                                            room_config.width, room_config.length,
                                            RoomKw)
    /\ UNCHANGED <<room_svg, created_walls>>

NextRoom == SvgDrawRoom \/ CreateRoom \/ CreateRoomOld

SpecRoom == InitRoom /\ [][NextRoom]_vars

(***************************************************************************)
(* Claims about the walls of a room                                        *)
(***************************************************************************)
RoomThickness == Get(room_config, "wall_thickness", GLOBAL_CONFIG.wall_thickness)

RoomSides ==
    {Lower(Get(room_config, "walls", Directions)[i]) :
        i \in 1..Len(Get(room_config, "walls", Directions))}

\* the centerline of side d as start_x, start_y, end_x, end_y: north and
\* south over the full width, east and west between them
DeclaredCenterline(d) ==
    LET x == room_config.x
        y == room_config.y
        width == room_config.width
        length == room_config.length
        t == RoomThickness
    IN CASE d = "north" -> <<x, y + t \div 2, x + width, y + t \div 2>>
         [] d = "south" -> <<x, y + length - t \div 2, x + width, y + length - t \div 2>>
         [] d = "east" -> <<x + width - t \div 2, y + t, x + width - t \div 2, y + length - t>>
         [] d = "west" -> <<x + t \div 2, y + t, x + t \div 2, y + length - t>>

Centerline(w) == <<w.start_x, w.start_y, w.end_x, w.end_y>>

HasLength(c) == c[1] # c[3] \/ c[2] # c[4]

\* the name create_room gives the wall of side d
SideWallName(d) == room_config.name \o <<Capitalize(d)>>

\* the walls svg_draw_room has drawn are the requested sides of non-zero
\* length, each once, on the declared centerline
DrawnOnDeclaredCenterlines ==
    \A d \in {"north", "south", "east", "west"} :
        LET drawn == {n \in 1..Len(room_svg) : room_svg[n].side = d}
        IN IF d \in RoomSides /\ HasLength(DeclaredCenterline(d))
           THEN /\ Cardinality(drawn) = 1
                /\ \A n \in drawn : Centerline(room_svg[n]) = DeclaredCenterline(d)
           ELSE drawn = {}

\* the create_wall calls of create_room are those of the requested sides,
\* each once, on the declared centerline
CreatedOnDeclaredCenterlines(created) ==
    \A d \in {"north", "south", "east", "west"} :
        LET made == {n \in 1..Len(created) : created[n].name = SideWallName(d)}
        IN IF d \in RoomSides
           THEN /\ Cardinality(made) = 1
                /\ \A n \in made :
                      /\ Centerline(created[n]) = DeclaredCenterline(d)
                      /\ (created[n].object = "None") <=> ~HasLength(DeclaredCenterline(d))
           ELSE made = {}

\* footprints as [x1, x2, y1, y2]
BoundingBox(points) ==
    LET xs == {points[n][1] : n \in 1..Len(points)}
        ys == {points[n][2] : n \in 1..Len(points)}
    IN [x1 |-> CHOOSE v \in xs : \A u \in xs : v <= u,
        x2 |-> CHOOSE v \in xs : \A u \in xs : v >= u,
        y1 |-> CHOOSE v \in ys : \A u \in ys : v <= u,
        y2 |-> CHOOSE v \in ys : \A u \in ys : v >= u]

DrawnFootprint(w) == BoundingBox(WallCorners(w))

\* a box is dimensions[1] long along its rotated x axis
CreatedFootprint(w) ==
    IF w.object = "mesh" THEN BoundingBox(w.verts)
    ELSE LET along == w.dimensions[1] \div 2
             across == w.dimensions[2] \div 2
             hx == IF w.rotation \in {0, 180} THEN along ELSE across
             hy == IF w.rotation \in {0, 180} THEN across ELSE along
         IN [x1 |-> w.location[1] - hx, x2 |-> w.location[1] + hx,
             y1 |-> w.location[2] - hy, y2 |-> w.location[2] + hy]

\* two footprints share more than boundary points
Overlap(a, b) ==
    /\ Max(a.x1, b.x1) < Min(a.x2, b.x2)
    /\ Max(a.y1, b.y1) < Min(a.y2, b.y2)

DrawnCornersDisjoint ==
    \A n, m \in 1..Len(room_svg) :
        (room_svg[n].side \in {"north", "south"} /\ room_svg[m].side \in {"east", "west"})
        => ~Overlap(DrawnFootprint(room_svg[n]), DrawnFootprint(room_svg[m]))

CreatedCornersDisjoint(created) ==
    \A n, m \in 1..Len(created) :
        (/\ created[n].object # "None" /\ created[m].object # "None"
         /\ created[n].name \in {SideWallName("north"), SideWallName("south")}
         /\ created[m].name \in {SideWallName("east"), SideWallName("west")})
        => ~Overlap(CreatedFootprint(created[n]), CreatedFootprint(created[m]))

\* the room of the example: (0,0), size (100,100), t = 8, north and east
\* walls requested
ExampleRoom ==
    /\ room_config.x = 0 /\ room_config.y = 0
    /\ room_config.width = 100000 /\ room_config.length = 100000
    /\ RoomThickness = 8000
    /\ {"north", "east"} \subseteq RoomSides

ExampleWalls(walls, north, east) ==
    /\ \E n \in 1..Len(walls) :
          north[n] /\ Centerline(walls[n]) = <<0, 4000, 100000, 4000>>
    /\ \E n \in 1..Len(walls) :
          east[n] /\ Centerline(walls[n]) = <<96000, 8000, 96000, 92000>>

ExampleHolds ==
    ExampleRoom =>
        /\ "svg_draw_room" \in room_done =>
              ExampleWalls(room_svg,
                           [n \in 1..Len(room_svg) |-> room_svg[n].side = "north"],
                           [n \in 1..Len(room_svg) |-> room_svg[n].side = "east"])
        /\ "create_room" \in room_done =>
              ExampleWalls(created_walls,
                           [n \in 1..Len(created_walls) |->
                              created_walls[n].name = <<"R", "North">>],
                           [n \in 1..Len(created_walls) |->
                              created_walls[n].name = <<"R", "East">>])
        /\ "create_room_old" \in room_done =>
              ExampleWalls(created_walls_old,
                           [n \in 1..Len(created_walls_old) |->
                              created_walls_old[n].name = <<"R", "North">>],
                           [n \in 1..Len(created_walls_old) |->
                              created_walls_old[n].name = <<"R", "East">>])

SameCenterlines ==
    /\ "svg_draw_room" \in room_done => DrawnOnDeclaredCenterlines
    /\ "create_room" \in room_done => CreatedOnDeclaredCenterlines(created_walls)
    /\ "create_room_old" \in room_done => CreatedOnDeclaredCenterlines(created_walls_old)

CornersDisjoint ==
    /\ "svg_draw_room" \in room_done => DrawnCornersDisjoint
    /\ "create_room" \in room_done => CreatedCornersDisjoint(created_walls)
    /\ "create_room_old" \in room_done => CreatedCornersDisjoint(created_walls_old)

\* C8 as stated: svg_draw_room and create_room put the walls of a room on
\* the same centerlines (north and south over the full width at y + t/2 and
\* y + length - t/2, east and west from y + t to y + length - t at
\* x + width - t/2 and x + t/2), so the footprints of the north/south walls
\* and of the east/west walls of a room never overlap; for the room (0,0),
\* (100,100), t = 8 north is y = 4 over x in [0,100] and east is x = 96 over
\* y in [8,92].
C8_RoomCenterlines == SameCenterlines /\ CornersDisjoint /\ ExampleHolds

\* C8 amended: the centerlines are the same for every room, and the
\* footprints of the north/south walls and of the east/west walls do not
\* overlap when the room is at least two wall thicknesses long
\* (length >= 2t).
C8_RoomCenterlinesLongRoom ==
    /\ SameCenterlines
    /\ ExampleHolds
    /\ room_config.length >= 2 * RoomThickness => CornersDisjoint

\* C8 witness: the room of the example with all four walls has been drawn
\* and built by both libraries, with north on y = 4 and east on x = 96 from
\* y = 8 to y = 92.
C8_Witness ==
    /\ pc = "done"
    /\ ExampleRoom
    /\ RoomSides = {"north", "south", "east", "west"}
    /\ Len(room_svg) = 4 /\ Len(created_walls) = 4 /\ Len(created_walls_old) = 4
    /\ Centerline(room_svg[1]) = <<0, 4000, 100000, 4000>>
    /\ Centerline(created_walls[3]) = <<96000, 8000, 96000, 92000>>
    /\ Centerline(created_walls_old[3]) = Centerline(room_svg[3])

(***************************************************************************)
(* Claims about the openings of an elevation                               *)
(***************************************************************************)
\* the objects of the configuration, as <<floor index, object index>>
ElevObjectIndices ==
    {p \in (1..Len(house_config.floors)) \X (1..MaxElevObjects) :
        p[2] <= Len(house_config.floors[p[1]].objects)}

ElevObject(p) == house_config.floors[p[1]].objects[p[2]]

ElevOpeningIndices == {p \in ElevObjectIndices : ElevObject(p).type \in {"door", "window"}}

\* the names of the walls of floor fi: name_direction for each wall of a
\* room, the name of each standalone wall
WallNamesOfFloor(fi) ==
    LET objs == house_config.floors[fi].objects
    IN {Get(objs[i], "name", <<>>) \o <<Lower(objs[i].walls[d])>> :
            <<i, d>> \in {q \in (1..Len(objs)) \X (1..4) :
                             /\ objs[q[1]].type = "room"
                             /\ q[2] <= Len(objs[q[1]].walls)}}
       \cup {Get(objs[i], "name", <<>>) : i \in {j \in 1..Len(objs) : objs[j].type = "wall"}}

\* the opening names the wall w: by room + direction, by wall_name or by wall
Names(o, w) ==
    \/ Has(o, "room") /\ o.room \o <<Lower(Get(o, "direction", ""))>> = w
    \/ ~Has(o, "room") /\ Has(o, "wall_name") /\ o.wall_name = w
    \/ ~Has(o, "room") /\ ~Has(o, "wall_name") /\ Has(o, "wall") /\ o.wall = w

ElevUnresolved ==
    {p \in ElevOpeningIndices : \A w \in WallNamesOfFloor(p[1]) : ~Names(ElevObject(p), w)}

\* the elements drawn for the opening at p: its rectangle and its dimensions
ElementsOfOpening(p) ==
    {n \in 1..Len(svg) : /\ svg[n].role \in {"opening", "opening-gap", "opening-width"}
                          /\ svg[n].origin[1] = p[1]
                          /\ svg[n].opening = ElevObject(p)}

\* the house without the object at p
HouseWithout(p) ==
    [house_config EXCEPT
        !.floors[p[1]].objects = SubSeq(@, 1, p[2] - 1) \o SubSeq(@, p[2] + 1, Len(@))]

\* an element without the index of its configuration object
Unindexed(s) ==
    [n \in 1..Len(s) |-> [k \in DOMAIN s[n] \ {"origin"} |-> s[n][k]]]

\* C11: a door or window that names no wall of its floor, by wall name or
\* by room + direction, is not drawn and gets no opening dimension, and the
\* walls and all other objects are drawn exactly as for the house without
\* it; the call returns a drawing.
C11_UnresolvedOpeningNotDrawn ==
    pc = "done" =>
        \A p \in ElevUnresolved :
            /\ ElementsOfOpening(p) = {}
            /\ Unindexed(svg)
               = Unindexed(ElevationElements(view_type, GLOBAL_CONFIG, HouseWithout(p),
                              AllObjectsToDraw(view_type, GLOBAL_CONFIG, HouseWithout(p))))

\* C11 witness: an elevation has been drawn of a house with a door that
\* names a wall no object has, next to a wall whose own opening is drawn.
C11_Witness ==
    /\ pc = "done"
    /\ \E p \in ElevUnresolved : Has(ElevObject(p), "wall")
    /\ \E n \in 1..Len(svg) : svg[n].role = "opening"

\* C11 witness for room + direction: a window that names a room the floor
\* does not have, in a drawing that has walls
UnresolvedByRoomDrawn ==
    /\ pc = "done"
    /\ \E p \in ElevUnresolved : Has(ElevObject(p), "room")
    /\ \E n \in 1..Len(all_objects_to_draw) : all_objects_to_draw[n].type = "wall"

(***************************************************************************)
(* Claims about the visiting order of assign_dimension_offset_levels       *)
(***************************************************************************)
\* edge j comes before edge i in ascending (start, end) order
StartsBefore(j, i) ==
    /\ j # i
    /\ PairLe(EdgeStart(edges[j], is_horizontal), EdgeEnd(edges[j], is_horizontal),
              EdgeStart(edges[i], is_horizontal), EdgeEnd(edges[i], is_horizontal))

\* edge j comes before edge i in the order the sort of the declared
\* coordinates gives: ascending (x1, x2) or (y1, y2), equal keys in list order
DeclaredBefore(j, i) ==
    LET kj == PackSortKey(edges[j], is_horizontal)
        ki == PackSortKey(edges[i], is_horizontal)
    IN j # i /\ (kj # ki \/ j < i) /\ PairLe(kj[1], kj[2], ki[1], ki[2])

\* level l holds no edge placed before edge i that conflicts with it
LevelFree(l, i, before) ==
    \A j \in before :
        LevelOf(edges[j]) = l => ~Conflict(edges[i], edges[j], is_horizontal)

\* C12: the levels are those of first-fit over the edges in ascending
\* (start, end) order: each edge has the lowest level on which no edge
\* placed before it conflicts with it; and the edges with spans [0,50],
\* [30,80], [100,150] on one line get the levels 0, 1, 0.
C12_FirstFitByStart ==
    pc = "done" =>
        /\ \A i \in 1..Len(edges) :
              LET before == {j \in 1..Len(edges) : StartsBefore(j, i)}
              IN /\ LevelFree(LevelOf(edges[i]), i, before)
                 /\ \A l \in 0..(LevelOf(edges[i]) - 1) : ~LevelFree(l, i, before)
        /\ edges = ExampleEdges(is_horizontal)
           => <<LevelOf(edges[1]), LevelOf(edges[2]), LevelOf(edges[3])>> = <<0, 1, 0>>

\* what holds instead: first-fit over the edges in the order of their
\* declared coordinates, and the levels of the example
FirstFitByDeclaredOrder ==
    pc = "done" =>
        /\ \A i \in 1..Len(edges) :
              LET before == {j \in 1..Len(edges) : DeclaredBefore(j, i)}
              IN /\ LevelFree(LevelOf(edges[i]), i, before)
                 /\ \A l \in 0..(LevelOf(edges[i]) - 1) : ~LevelFree(l, i, before)
        /\ edges = ExampleEdges(is_horizontal)
           => <<LevelOf(edges[1]), LevelOf(edges[2]), LevelOf(edges[3])>> = <<0, 1, 0>>

(***************************************************************************)
(* Claims about the drawing order of an elevation                          *)
(***************************************************************************)
\* the shapes of the depth-sorted objects, in the order they are written
ObjectShapes == SelectSeq(svg, LAMBDA el : Has(el, "role") /\ el.role = "object")

\* the place of an entry's shape among all the elements written
PlaceOf(origin) ==
    CHOOSE n \in 1..Len(svg) :
        Has(svg[n], "role") /\ svg[n].role = "object" /\ svg[n].origin = origin

DefaultPriority(type) ==
    CASE type = "beam" -> 0
      [] type = "floor_slab" -> 1
      [] type = "wall" -> 2
      [] type = "pillar" -> 3
      [] OTHER -> 1

\* C13: the objects of all floors are drawn in one sequence ascending in
\* (depth, priority), the priorities being beam 0, floor slab 1, room wall
\* and wall 2, pillar 3: an object drawn before another has the smaller or
\* equal (depth, priority).
C13_DrawnByDepthThenPriority ==
    pc = "done" =>
        /\ Len(ObjectShapes) = Len(all_objects_to_draw)
        /\ \A n \in 1..Len(all_objects_to_draw) :
              /\ ObjectShapes[n].origin = all_objects_to_draw[n].origin
              /\ all_objects_to_draw[n].type # "staircase"
                 => all_objects_to_draw[n].priority
                        = DefaultPriority(all_objects_to_draw[n].type)
        /\ \A a, b \in 1..Len(all_objects_to_draw) :
              a < b => PairLe(all_objects_to_draw[a].depth, all_objects_to_draw[a].priority,
                              all_objects_to_draw[b].depth, all_objects_to_draw[b].priority)

\* later in the configuration: on a later floor, or later on the same floor
DeclaredAfter(a, b) ==
    a.origin[1] > b.origin[1] \/ (a.origin[1] = b.origin[1] /\ a.origin[2] > b.origin[2])

\* two objects at one depth, the one of the lower priority declared later (on
\* the same floor in one state, on the upper floor in another) and drawn first
C13_Witness ==
    /\ pc = "done"
    /\ \E a, b \in 1..Len(all_objects_to_draw) :
          /\ all_objects_to_draw[a].depth = all_objects_to_draw[b].depth
          /\ all_objects_to_draw[a].priority < all_objects_to_draw[b].priority
          /\ DeclaredAfter(all_objects_to_draw[a], all_objects_to_draw[b])
          /\ all_objects_to_draw[a].origin[1] > all_objects_to_draw[b].origin[1]
          /\ PlaceOf(all_objects_to_draw[a].origin) < PlaceOf(all_objects_to_draw[b].origin)

\* the configuration object an entry of all_objects_to_draw was made from
ObjectOf(e) == house_config.floors[e.origin[1]].objects[e.origin[2]]

\* slabs, beams, staircases, pillars and standalone walls
FloorAligned(e) ==
    ObjectOf(e).type \in {"floor_slab", "beam", "staircase", "pillar", "wall"}

\* C14: in the front view the depth that orders the drawing is y for slabs,
\* beams, staircases and pillars and min(start_y, end_y) for standalone
\* walls: of two such objects the one with the smaller y is drawn first and
\* the one with the larger y later, on top.
C14_FrontViewSmallerYFirst ==
    (pc = "done" /\ view_type = "front") =>
        \A a, b \in 1..Len(all_objects_to_draw) :
            LET ea == all_objects_to_draw[a]
                eb == all_objects_to_draw[b]
            IN (/\ FloorAligned(ea) /\ FloorAligned(eb)
                /\ FirstPassDepth("front", ObjectOf(ea))
                       < FirstPassDepth("front", ObjectOf(eb)))
               => /\ ea.depth = FirstPassDepth("front", ObjectOf(ea))
                  /\ PlaceOf(ea.origin) < PlaceOf(eb.origin)

(***************************************************************************)
(* Claims about the in-plane position of what an elevation draws           *)
(***************************************************************************)
\* where the claim puts something of width w that lies at pos in the plan
Placed(pos, w) ==
    IF view_type \in {"front", "right"}
    THEN ViewWidth(view_type, house_config) - (pos + w)
    ELSE pos

\* the entry of all_objects_to_draw an element was written for
EntryOf(el) ==
    CHOOSE n \in 1..Len(all_objects_to_draw) : all_objects_to_draw[n].origin = el.origin

\* the left edge of a shape
LeftOf(el) == IF el.shape = "polygon" THEN el.points[1][1] ELSE el.x

\* the plan coordinate of an opening along the wall of entry e
AlongWall(e, opening) == Get(opening, e.coord_key, 0)

\* where a chain of opening dimensions can start a gap: the start of the
\* wall and the far end of each opening of the wall
GapStarts(e) ==
    {e.x} \cup {AlongWall(e, e.openings[k]) + e.openings[k].width : k \in 1..Len(e.openings)}

WellPlacedElement(el) ==
    LET e == all_objects_to_draw[EntryOf(el)]
    IN CASE el.role = "object" -> LeftOf(el) = Placed(e.x, e.width)
         [] el.role = "opening" ->
              el.x = Placed(AlongWall(e, el.opening), el.opening.width)
         [] el.role = "opening-width" ->
              /\ el.x1 = Placed(AlongWall(e, el.opening), el.opening.width)
              /\ el.x2 = el.x1 + el.opening.width
         [] el.role = "opening-gap" ->
              /\ Placed(AlongWall(e, el.opening), 0) \in {el.x1, el.x2}
              /\ \E c \in GapStarts(e) :
                    /\ c < AlongWall(e, el.opening)
                    /\ {el.x1, el.x2} = {Placed(c, 0), Placed(AlongWall(e, el.opening), 0)}
              /\ el.x1 < el.x2
         [] OTHER -> TRUE

\* C15: every drawn object, opening and opening-dimension endpoint of an
\* elevation is placed by the same mapping: at span_width - (pos + w) in the
\* front and right views, at pos in the back and left views.
C15_MirroredInFrontAndRight ==
    pc = "done" =>
        \A n \in 1..Len(svg) :
            (Has(svg[n], "role") /\ Has(svg[n], "origin")) => WellPlacedElement(svg[n])

\* a mirrored view that draws a wall, an opening of it, and both a gap
\* dimension and a width dimension for the opening, none where the plan has it
C15_Witness ==
    /\ pc = "done"
    /\ view_type \in {"front", "right"}
    /\ \E a, b, c, d \in 1..Len(svg) :
          /\ Has(svg[a], "origin") /\ svg[a].role = "object"
          /\ LeftOf(svg[a]) # all_objects_to_draw[EntryOf(svg[a])].x
          /\ Has(svg[b], "origin") /\ svg[b].role = "opening"
          /\ svg[b].origin = svg[a].origin
          /\ svg[b].x # AlongWall(all_objects_to_draw[EntryOf(svg[b])], svg[b].opening)
          /\ Has(svg[c], "origin") /\ svg[c].role = "opening-gap"
          /\ svg[c].opening = svg[b].opening
          /\ Has(svg[d], "origin") /\ svg[d].role = "opening-width"
          /\ svg[d].opening = svg[b].opening

\* the same in an unmirrored view, everything where the plan has it
UnmirroredViewDrawn ==
    /\ pc = "done"
    /\ view_type \in {"back", "left"}
    /\ \E b, c, d \in 1..Len(svg) :
          /\ Has(svg[b], "origin") /\ svg[b].role = "opening"
          /\ svg[b].x = AlongWall(all_objects_to_draw[EntryOf(svg[b])], svg[b].opening)
          /\ Has(svg[c], "origin") /\ svg[c].role = "opening-gap"
          /\ svg[c].opening = svg[b].opening
          /\ Has(svg[d], "origin") /\ svg[d].role = "opening-width"
          /\ svg[d].opening = svg[b].opening

(***************************************************************************)
(* Claims about the doors and windows of an elevation                      *)
(***************************************************************************)
IsRole(el, r) == Has(el, "role") /\ el.role = r

\* the place of the wall shape an opening rectangle at place n follows: the
\* nearest earlier element that is not an opening rectangle
ShapeBefore(n) ==
    CHOOSE m \in 0..(n - 1) :
        /\ m > 0 => ~IsRole(svg[m], "opening")
        /\ \A k \in (m + 1)..(n - 1) : IsRole(svg[k], "opening")

\* C16: every door or window rectangle is written right after the shape of
\* its resolved parent wall (only rectangles of the same wall's openings in
\* between), before the next depth-sorted object; a door or window is never
\* an element of the (depth, priority) sort.
C16_OpeningsFollowTheirWall ==
    pc = "done" =>
        /\ \A n \in 1..Len(svg) :
              IsRole(svg[n], "opening") =>
                  LET m == ShapeBefore(n)
                  IN /\ m > 0
                     /\ IsRole(svg[m], "object")
                     /\ svg[m].origin = svg[n].origin
                     /\ all_objects_to_draw[EntryOf(svg[m])].type = "wall"
                     /\ OpeningKey(svg[n].opening) = all_objects_to_draw[EntryOf(svg[m])].name
                     /\ \E k \in 1..Len(house_config.floors[svg[n].origin[1]].objects) :
                           house_config.floors[svg[n].origin[1]].objects[k] = svg[n].opening
        /\ \A n \in 1..Len(all_objects_to_draw) :
              /\ all_objects_to_draw[n].type \notin {"door", "window"}
              /\ ObjectOf(all_objects_to_draw[n]).type \notin {"door", "window"}

\* a wall with two openings, both declared before it, drawn wall first, then
\* the two rectangles, then a later object of the sort
C16_Witness ==
    /\ pc = "done"
    /\ \E n \in 1..Len(svg) :
          /\ n + 3 <= Len(svg)
          /\ IsRole(svg[n], "object")
          /\ IsRole(svg[n + 1], "opening") /\ IsRole(svg[n + 2], "opening")
          /\ IsRole(svg[n + 3], "object")
          /\ LET objs == house_config.floors[svg[n].origin[1]].objects
             IN /\ objs[1].type \in {"door", "window"}
                /\ objs[2].type \in {"door", "window"}
                /\ svg[n].origin[2] = 3

(***************************************************************************)
(* Claims about the wall-height dimensions of an elevation                 *)
(***************************************************************************)
DrawnWalls == {n \in 1..Len(all_objects_to_draw) : all_objects_to_draw[n].type = "wall"}

\* within 5 units of the largest depth among the walls of the view
FrontMost(n) ==
    \A m \in DrawnWalls :
        all_objects_to_draw[m].depth - all_objects_to_draw[n].depth <= 5000

\* the default wall height of the floor the wall stands on
FloorDefaultHeight(n) ==
    GLOBAL_CONFIG.floor_heights[
        house_config.floors[all_objects_to_draw[n].origin[1]].floor_number]

EndHeight(n) ==
    Get(all_objects_to_draw[n], "height_end", all_objects_to_draw[n].height)

\* the height or the end height is more than 1 unit off the floor's default
OffDefault(n) ==
    \/ Abs(all_objects_to_draw[n].height - FloorDefaultHeight(n)) > 1000
    \/ Abs(EndHeight(n) - FloorDefaultHeight(n)) > 1000

\* the wall-height dimension lines written for the wall at place n
HeightDimsOf(n) ==
    {k \in 1..Len(svg) : /\ IsRole(svg[k], "wall-height")
                          /\ svg[k].origin = all_objects_to_draw[n].origin}

\* C17: wall-height dimension lines are written for exactly the walls that
\* are front-most and whose height or end height is off the floor's default:
\* every such wall gets its dimension(s) and no other wall gets one.
C17_ExactlyFrontCustomWalls ==
    pc = "done" =>
        \A n \in DrawnWalls : (FrontMost(n) /\ OffDefault(n)) <=> HeightDimsOf(n) # {}

\* an earlier front-most wall off the default has the same (min, max) heights
RangeTaken(n) ==
    \E m \in DrawnWalls :
        /\ m < n /\ FrontMost(m) /\ OffDefault(m)
        /\ {all_objects_to_draw[m].height, EndHeight(m)}
              = {all_objects_to_draw[n].height, EndHeight(n)}

\* the heights a wall shows: both ends when it slopes, else its one height;
\* a height below dimensions.min_dimension_length is not drawn
ShownHeights(n) ==
    {h \in {all_objects_to_draw[n].height, EndHeight(n)} :
        h >= GLOBAL_CONFIG.dimensions.min_dimension_length}

\* C17, as the drawing is made: no wall other than a front-most one off the
\* default gets a height dimension; such a wall gets none when an earlier one
\* drawn has the same pair of lowest and highest height, and otherwise one
\* for each of its end heights that reaches min_dimension_length.
C17_FrontCustomWallsOncePerRange ==
    pc = "done" =>
        \A n \in DrawnWalls :
            /\ HeightDimsOf(n) # {} => (FrontMost(n) /\ OffDefault(n))
            /\ (FrontMost(n) /\ OffDefault(n) /\ RangeTaken(n)) => HeightDimsOf(n) = {}
            /\ (FrontMost(n) /\ OffDefault(n) /\ ~RangeTaken(n))
               => /\ Cardinality(HeightDimsOf(n)) = Cardinality(ShownHeights(n))
                  /\ {svg[k].length : k \in HeightDimsOf(n)} = ShownHeights(n)

\* a front-most wall with its two height dimensions, and a wall off the
\* default farther back with none
C17_Witness ==
    /\ pc = "done"
    /\ \E n, m \in DrawnWalls :
          /\ FrontMost(n) /\ OffDefault(n) /\ Cardinality(HeightDimsOf(n)) = 2
          /\ ~FrontMost(m) /\ OffDefault(m) /\ HeightDimsOf(m) = {}

\* two front-most walls with the same heights, the second without a dimension
SameRangeWallSkipped ==
    /\ pc = "done"
    /\ \E n \in DrawnWalls :
          FrontMost(n) /\ OffDefault(n) /\ RangeTaken(n) /\ ShownHeights(n) # {}

(***************************************************************************)
(* generate_floor_plan_svg on floors of rooms and walls: the perimeter     *)
(* and interior edge dimensions                                            *)
(***************************************************************************)
MaxEdgeObjects == 3

\* a room; a room inside it with two sides; a room beside it; walls at 1.5
\* and at 2 from the north side; a wall across the room and one below it,
\* both declared backwards; a short wall that can be a floor on its own; a
\* wall that meets the room's corner
EdgeObjectUniverse ==
    {[type |-> "room", name |-> <<"R">>, x |-> 0, y |-> 0, width |-> 100000,
      length |-> 100000, walls |-> <<"north", "south", "east", "west">>],
     [type |-> "room", name |-> <<"K">>, x |-> 20000, y |-> 20000, width |-> 40000,
      length |-> 40000, walls |-> <<"North", "west">>],
     [type |-> "room", name |-> <<"Q">>, x |-> 100000, y |-> 0, width |-> 60000,
      length |-> 100000, walls |-> <<"north", "south", "east">>],
     [type |-> "wall", name |-> <<"X">>, start_x |-> 0, start_y |-> 1500,
      end_x |-> 50000, end_y |-> 1500],
     [type |-> "wall", name |-> <<"X2">>, start_x |-> 0, start_y |-> 2000,
      end_x |-> 50000, end_y |-> 2000],
     [type |-> "wall", name |-> <<"V">>, start_x |-> 50000, start_y |-> 100000,
      end_x |-> 50000, end_y |-> 0],
     [type |-> "wall", name |-> <<"W">>, start_x |-> 100000, start_y |-> 150000,
      end_x |-> 0, end_y |-> 150000],
     [type |-> "wall", name |-> <<"S1">>, start_x |-> 0, start_y |-> 50000,
      end_x |-> 25000, end_y |-> 50000],
     [type |-> "wall", name |-> <<"C">>, start_x |-> 100000, start_y |-> 100000,
      end_x |-> 100000, end_y |-> 150000],
     [type |-> "pillar", name |-> <<"P">>, x |-> 50000, y |-> 50000]}

EdgeGlobalConfigs ==
    {[HouseGlobalConfig EXCEPT !.dimensions.show_outer_dimensions = o,
                               !.dimensions.show_inner_dimensions = i] :
        o \in BOOLEAN, i \in BOOLEAN}

InitPlanEdges ==
    /\ pc = "start"
    /\ GLOBAL_CONFIG \in EdgeGlobalConfigs
    /\ floor_config \in UNION {[1..n -> EdgeObjectUniverse] : n \in 0..MaxEdgeObjects}
    /\ plan_svg = <<>>
    /\ Idle("plan")

SpecPlanEdges == InitPlanEdges /\ [][NextPlan]_vars

(***************************************************************************)
(* Claims about the perimeter edges of a floor plan                        *)
(***************************************************************************)
FloorEdges == extract_floor_edges(floor_config)

HorizontalEdges == {OValues(FloorEdges.horizontal)[n] : n \in 1..Len(FloorEdges.horizontal)}

VerticalEdges == {OValues(FloorEdges.vertical)[n] : n \in 1..Len(FloorEdges.vertical)}

Perimeter == classify_perimeter_edges(FloorEdges, PlanBounds(floor_config))

InList(e, side) == \E n \in 1..Len(Perimeter[side]) : Perimeter[side][n] = e

\* less than 2 units from the bound
WithinTolerance(v, bound) == Abs(v - bound) < 2000

\* the dimensions drawn for edge e on the given sides
EdgeDimsOf(e, sides) ==
    {n \in 1..Len(plan_svg) : /\ Has(plan_svg[n], "role")
                               /\ plan_svg[n].role = "edge-dimension"
                               /\ plan_svg[n].edge = EdgeKey(e)
                               /\ plan_svg[n].side \in sides}

PerimeterSides == {"north", "south", "east", "west"}

InNoList(e) == \A side \in PerimeterSides : ~InList(e, side)

\* C18: a horizontal edge is in the north (south) list iff its y is within
\* tolerance of min_y (max_y), a vertical edge in the west (east) list iff
\* its x is within tolerance of min_x (max_x); an edge matching no side is in
\* no perimeter list and is dimensioned as an interior edge, and the call
\* does not raise.
C18_PerimeterIffWithinTolerance ==
    (pc # "start" /\ (HorizontalEdges \cup VerticalEdges) # {}) =>
        /\ pc = "done"
        /\ \A e \in HorizontalEdges :
              /\ InList(e, "north") <=> WithinTolerance(e.y1, PlanBounds(floor_config).min_y)
              /\ InList(e, "south") <=> WithinTolerance(e.y1, PlanBounds(floor_config).max_y)
              /\ ~InList(e, "west") /\ ~InList(e, "east")
        /\ \A e \in VerticalEdges :
              /\ InList(e, "west") <=> WithinTolerance(e.x1, PlanBounds(floor_config).min_x)
              /\ InList(e, "east") <=> WithinTolerance(e.x1, PlanBounds(floor_config).max_x)
              /\ ~InList(e, "north") /\ ~InList(e, "south")
        /\ \A e \in HorizontalEdges \cup VerticalEdges :
              InNoList(e) => /\ EdgeDimsOf(e, PerimeterSides) = {}
                             /\ Cardinality(EdgeDimsOf(e, {"interior"})) = 1

\* the length svg_draw_dimension_line is left with after both adjustments
AdjustedLength(e) ==
    Abs((e.x2 - e.x1) + (e.y2 - e.y1) - 2 * GLOBAL_CONFIG.wall_thickness)

\* C18, as the lists are made: north and west are tested first, so an edge
\* within tolerance of both bounds is in the north (west) list only; an edge
\* matching no side gets its interior dimension when inner dimensions are on
\* and its adjusted length reaches min_dimension_length, and none otherwise.
C18_PerimeterFirstSideWins ==
    (pc # "start" /\ (HorizontalEdges \cup VerticalEdges) # {}) =>
        /\ pc = "done"
        /\ \A e \in HorizontalEdges :
              /\ InList(e, "north") <=> WithinTolerance(e.y1, PlanBounds(floor_config).min_y)
              /\ InList(e, "south")
                    <=> (/\ WithinTolerance(e.y1, PlanBounds(floor_config).max_y)
                         /\ ~WithinTolerance(e.y1, PlanBounds(floor_config).min_y))
              /\ ~InList(e, "west") /\ ~InList(e, "east")
        /\ \A e \in VerticalEdges :
              /\ InList(e, "west") <=> WithinTolerance(e.x1, PlanBounds(floor_config).min_x)
              /\ InList(e, "east")
                    <=> (/\ WithinTolerance(e.x1, PlanBounds(floor_config).max_x)
                         /\ ~WithinTolerance(e.x1, PlanBounds(floor_config).min_x))
              /\ ~InList(e, "north") /\ ~InList(e, "south")
        /\ \A e \in HorizontalEdges \cup VerticalEdges :
              InNoList(e) =>
                  /\ EdgeDimsOf(e, PerimeterSides) = {}
                  /\ Cardinality(EdgeDimsOf(e, {"interior"}))
                        = IF /\ GLOBAL_CONFIG.dimensions.show_inner_dimensions
                             /\ AdjustedLength(e)
                                  >= GLOBAL_CONFIG.dimensions.min_dimension_length
                          THEN 1 ELSE 0
                  /\ \A n \in EdgeDimsOf(e, {"interior"}) :
                        plan_svg[n].offset = GLOBAL_CONFIG.dimensions.inner_dimension_offset

\* a floor with an edge on the north side, an edge 1.5 units off it that is
\* in the north list too, and an edge that matches no side and has its
\* interior dimension
C18_Witness ==
    /\ pc = "done"
    /\ \E a, b, c \in HorizontalEdges :
          /\ InList(a, "north") /\ a.y1 = PlanBounds(floor_config).min_y
          /\ InList(b, "north") /\ b.y1 # PlanBounds(floor_config).min_y
          /\ InNoList(c) /\ EdgeDimsOf(c, {"interior"}) # {}

\* a floor whose one edge is within tolerance of both min_y and max_y
EdgeOnBothBounds ==
    /\ pc = "done"
    /\ \E e \in HorizontalEdges :
          /\ WithinTolerance(e.y1, PlanBounds(floor_config).min_y)
          /\ WithinTolerance(e.y1, PlanBounds(floor_config).max_y)
          /\ InList(e, "north") /\ ~InList(e, "south")

(***************************************************************************)
(* Claims about the clear span of an edge dimension                        *)
(***************************************************************************)
\* the edge of the floor with the given key
EdgeWithKey(k) == CHOOSE e \in HorizontalEdges \cup VerticalEdges : EdgeKey(e) = k

\* what detect_wall_connections reports for the two ends of the edge
ConnectionsOf(k) == OGet(detect_wall_connections(FloorEdges), k)

\* C19: an edge's dimension is shortened by one wall thickness at exactly
\* the ends where detect_wall_connections reports a connection, and measures
\* to the unshortened endpoint at an end without one.
C19_ShortenedAtConnectedEnds ==
    pc = "done" =>
        \A n \in 1..Len(plan_svg) :
            (Has(plan_svg[n], "role") /\ plan_svg[n].role = "edge-dimension") =>
                LET d == plan_svg[n]
                    e == EdgeWithKey(d.edge)
                    c == ConnectionsOf(d.edge)
                    t == GLOBAL_CONFIG.wall_thickness
                    at_start == IF c[1] THEN t ELSE 0
                    at_end == IF c[2] THEN t ELSE 0
                IN IF d.is_horizontal
                   THEN d.x1 = e.x1 + at_start /\ d.x2 = e.x2 - at_end
                   ELSE d.y1 = e.y1 + at_start /\ d.y2 = e.y2 - at_end

\* what the drawing does: both ends are moved by the wall thickness, with
\* or without a connection
BothEndsAdjusted ==
    pc = "done" =>
        \A n \in 1..Len(plan_svg) :
            (Has(plan_svg[n], "role") /\ plan_svg[n].role = "edge-dimension") =>
                LET d == plan_svg[n]
                    e == EdgeWithKey(d.edge)
                    t == GLOBAL_CONFIG.wall_thickness
                IN IF d.is_horizontal
                   THEN d.x1 = e.x1 + t /\ d.x2 = e.x2 - t
                   ELSE d.y1 = e.y1 + t /\ d.y2 = e.y2 - t

\* a drawn edge dimension of an edge with a connection at one end only
OneEndConnected ==
    /\ pc = "done"
    /\ \E n \in 1..Len(plan_svg) :
          /\ Has(plan_svg[n], "role") /\ plan_svg[n].role = "edge-dimension"
          /\ ConnectionsOf(plan_svg[n].edge)[1] # ConnectionsOf(plan_svg[n].edge)[2]

(***************************************************************************)
(* Claims about the heights of the walls of a room                         *)
(***************************************************************************)
\* the height and end height the claim gives the wall on side d: the pair
\* of a {start, end} entry, the number of a scalar entry, else the room's
\* height or, without one, the floor's; the end height is the start height
\* wherever none is given
ClaimedHeights(kw, d) ==
    LET entry == IF Has(kw, "wall_heights") /\ Has(kw.wall_heights, d)
                 THEN kw.wall_heights[d] ELSE <<>>
        start == IF Has(entry, "value") THEN [height |-> entry.value]
                 ELSE IF Has(entry, "start") THEN [height |-> entry.start]
                 ELSE HeightKw(kw)
    IN start @@ (IF Has(entry, "end") THEN [height_end |-> entry.end]
                 ELSE IF Has(start, "height") THEN [height_end |-> start.height]
                 ELSE <<>>)

\* C20: each wall create_room builds has the heights its wall_heights entry
\* resolves to: the pair of a {start, end} entry, a flat wall for a scalar,
\* the room or floor default without an entry; a wall with no end height
\* given is flat.
C20_WallHeightsResolved ==
    "create_room_old" \in room_done =>
        created_walls_old
          = RoomWallCalls(GLOBAL_CONFIG, room_config.name, room_config.x, room_config.y,
                          room_config.width, room_config.length, room_floor,
                          Get(room_config, "wall_thickness", GLOBAL_CONFIG.wall_thickness),
                          RoomSides,
                          [d \in {"north", "south", "east", "west"} |->
                              ClaimedHeights(RoomKw, d)])

\* a room whose north wall is given a start height only, built flat
StartOnlyBuiltFlat ==
    /\ "create_room_old" \in room_done
    /\ Has(room_config, "wall_heights") /\ Has(room_config.wall_heights, "north")
    /\ Has(room_config.wall_heights.north, "start")
    /\ \E n \in 1..Len(created_walls_old) :
          /\ created_walls_old[n].name = room_config.name \o <<"North">>
          /\ created_walls_old[n].object = "box"

\* the same entry in a room with a height of its own, built sloping
StartOnlyBuiltSloping ==
    /\ "create_room_old" \in room_done
    /\ Has(room_config, "wall_heights") /\ Has(room_config.wall_heights, "north")
    /\ Has(room_config.wall_heights.north, "start")
    /\ \E n \in 1..Len(created_walls_old) :
          /\ created_walls_old[n].name = room_config.name \o <<"North">>
          /\ created_walls_old[n].object = "mesh"

(***************************************************************************)
(* generate_elevation_view with an output path: houses of few objects,     *)
(* among them walls whose start point is their end point; every view; no   *)
(* path, a bare file name and a file in a directory that exists or not     *)
(***************************************************************************)
MaxFileObjects == 2

\* walls of no length, of the floor's height and of a height of their own
ElevPointWalls ==
    {[type |-> "wall", name |-> <<"Z1">>, start_x |-> 50000, start_y |-> 50000,
      end_x |-> 50000, end_y |-> 50000],
     [type |-> "wall", name |-> <<"Z2">>, start_x |-> 20000, start_y |-> 0,
      end_x |-> 20000, end_y |-> 0, height |-> 60000]}

\* a room away from the origin, east and south of rooms A and B
ElevFarRooms ==
    {[type |-> "room", name |-> <<"C">>, x |-> 200000, y |-> 50000, width |-> 100000,
      length |-> 100000, walls |-> <<"west", "east", "north", "south">>,
      height |-> 60000]}

FileObjects == ElevObjects \cup ElevPointWalls \cup ElevFarRooms

FileHouses ==
    {House(objs, k) :
        <<objs, k>> \in {p \in (UNION {[1..n -> FileObjects] : n \in 1..MaxFileObjects})
                                \X (0..MaxFileObjects) : p[2] <= Len(p[1])}}

OutputPaths ==
    {NoPath, <<<<"front", ".svg">>>>, <<<<"docs">>, <<"front", ".svg">>>>}

InitElevFiles ==
    /\ pc = "start"
    /\ GLOBAL_CONFIG = HouseGlobalConfig
    /\ view_type \in ViewTypes
    /\ house_config \in FileHouses
    /\ all_objects_to_draw = <<>>
    /\ svg = <<>>
    /\ output_path \in OutputPaths
    /\ output_dir_exists \in BOOLEAN
    /\ files = <<>>
    /\ Idle("elev")

SpecElevFiles == InitElevFiles /\ [][NextElev]_vars

\* C21: a call that returns has written the SVG file at output_path and no
\* other file, and no file at all when output_path is None
C21_OnlyTheSvgFileWritten ==
    pc = "done" =>
        /\ Len(files) = IF output_path = NoPath THEN 0 ELSE 1
        /\ \A n \in 1..Len(files) : files[n].path = output_path

\* what holds instead: besides the SVG file, one debug file for every floor
C21_SvgFileAndDebugFiles ==
    pc = "done" =>
        LET floors == house_config.floors
            dir == IF output_path = NoPath THEN <<<<".">>>> ELSE dirname(output_path)
        IN /\ Len(files) = Len(floors) + IF output_path = NoPath THEN 0 ELSE 1
           /\ \A n \in 1..Len(floors) :
                 /\ dirname(files[n].path) = dir
                 /\ files[n].path[Len(files[n].path)][1] = "objects_debug_"
           /\ output_path # NoPath =>
                 /\ files[Len(files)].path = output_path
                 /\ files[Len(files)].content = svg

\* a call without output path has written a file
WrittenWithoutOutputPath ==
    pc = "done" /\ output_path = NoPath /\ files # <<>>

(***************************************************************************)
(* Walls of no length in an elevation                                      *)
(***************************************************************************)
\* the walls whose start point is their end point
PointWalls ==
    {p \in StandaloneWalls :
        /\ WallObject(p).start_x = WallObject(p).end_x
        /\ WallObject(p).start_y = WallObject(p).end_y}

\* the elements drawn for the object at p: its shape, its openings, its dimensions
ElementsFor(p) ==
    {n \in 1..Len(svg) : Has(svg[n], "origin") /\ svg[n].origin = <<p[1], p[2], 0>>}

\* C22: generate_elevation_view does not raise on a wall whose start point
\* is its end point, and the elevation has no shape and no dimension line
\* for that wall
C22_PointWallSkipped ==
    /\ pc # "raised" \/ (output_path # NoPath /\ ~output_dir_exists)
    /\ pc = "done" => \A p \in PointWalls : ElementsFor(p) = {}

\* a wall of no length has a shape in the elevation
PointWallDrawn ==
    /\ pc = "done"
    /\ \E p \in PointWalls : \E n \in ElementsFor(p) :
          svg[n].role = "object" /\ svg[n].width = 0

\* a wall of no length has a height dimension in the elevation
PointWallDimensioned ==
    /\ pc = "done"
    /\ \E p \in PointWalls : \E n \in ElementsFor(p) : svg[n].role = "wall-height"

(***************************************************************************)
(* The depth orientation of an elevation                                   *)
(***************************************************************************)
\* the room walls drawn, as <<floor index, object index, index in 'walls'>>
DrawnRoomWalls ==
    {all_objects_to_draw[n].origin : n \in
        {m \in 1..Len(all_objects_to_draw) : all_objects_to_draw[m].origin[3] > 0}}

RoomOf(a) == house_config.floors[a[1]].objects[a[2]]

SideOf(a) == Lower(RoomOf(a).walls[a[3]])

\* where the outer face of a room's wall lies on the sight axis
SightCoordinate(a) ==
    CASE SideOf(a) = "west" -> RoomOf(a).x
      [] SideOf(a) = "east" -> RoomOf(a).x + RoomOf(a).width
      [] SideOf(a) = "north" -> RoomOf(a).y
      [] OTHER -> RoomOf(a).y + RoomOf(a).length

\* the camera of the front view stands north of the house (small y), of the
\* back view south, of the left view west (small x), of the right view east,
\* as slabs, beams, pillars and standalone walls are ordered
Nearer(a, b) ==
    IF view_type \in {"front", "left"} THEN SightCoordinate(a) < SightCoordinate(b)
    ELSE SightCoordinate(a) > SightCoordinate(b)

ShapeIndex(a) ==
    CHOOSE n \in 1..Len(svg) : svg[n].role = "object" /\ svg[n].origin = a

\* C23: of two walls of the same direction that belong to different rooms,
\* the one nearer the camera of the view is never drawn before the farther
C23_NearerWallNeverDrawnFirst ==
    pc = "done" =>
        \A a, b \in DrawnRoomWalls :
            (SideOf(a) = SideOf(b) /\ <<a[1], a[2]>> # <<b[1], b[2]>> /\ Nearer(a, b))
                => ShapeIndex(a) > ShapeIndex(b)

\* what holds instead: the order is that of the camera for every pair but
\* two west walls in the right view, which are drawn nearer first
C23_NearerWallDrawnFirstOnlyWestInRight ==
    pc = "done" =>
        \A a, b \in DrawnRoomWalls :
            (SideOf(a) = SideOf(b) /\ <<a[1], a[2]>> # <<b[1], b[2]>> /\ Nearer(a, b))
                => IF view_type = "right" /\ SideOf(a) = "west"
                   THEN ShapeIndex(a) < ShapeIndex(b)
                   ELSE ShapeIndex(a) > ShapeIndex(b)

\* a west wall nearer the camera of the right view is drawn before a farther one
NearerWestWallDrawnFirst ==
    /\ pc = "done" /\ view_type = "right"
    /\ \E a, b \in DrawnRoomWalls :
          /\ SideOf(a) = "west" /\ SideOf(b) = "west" /\ Nearer(a, b)
          /\ ShapeIndex(a) < ShapeIndex(b)

(***************************************************************************)
(* The opening dimensions of an elevation against those of the floor plan  *)
(***************************************************************************)
\* the name the floor plan knows the wall of entry e by
PlanNameOf(e) ==
    IF e.origin[3] > 0
    THEN Get(RoomOf(e.origin), "name", <<>>) \o <<Capitalize(SideOf(e.origin))>>
    ELSE e.name

Lengths(seq) == [n \in 1..Len(seq) |-> seq[n].length]

\* the lengths of the gap and width dimensions the elevation shows for the
\* openings of the wall of entry e, in the order drawn
ElevChainLengths(e) ==
    Lengths(SelectSeq(svg, LAMBDA el : /\ Has(el, "origin") /\ el.origin = e.origin
                                       /\ el.role \in {"opening-gap", "opening-width"}))

\* the lengths of the chain the floor plan of e's floor shows for the same wall
PlanChainLengths(e) ==
    Lengths(SelectSeq(OpeningDimensions(GLOBAL_CONFIG,
                                        house_config.floors[e.origin[1]].objects),
                      LAMBDA el : el.wall = PlanNameOf(e)))

\* the openings the floor plan attaches to the wall of entry e
PlanAttached(e) ==
    SelectSeq(house_config.floors[e.origin[1]].objects,
              LAMBDA o : o.type \in {"door", "window"} /\ PlanWallName(o) = PlanNameOf(e))

\* the front-most walls with openings, each with the same openings in the
\* elevation and in the floor plan
FrontWallsWithOpenings ==
    {n \in 1..Len(all_objects_to_draw) :
        /\ all_objects_to_draw[n].type = "wall"
        /\ IsFrontWall(all_objects_to_draw, all_objects_to_draw[n])
        /\ all_objects_to_draw[n].openings # <<>>
        /\ all_objects_to_draw[n].openings = PlanAttached(all_objects_to_draw[n])}

\* C24: for a front-most wall with openings the elevation shows the chain of
\* the floor plan: first gap from the wall's inner start, gaps over 5 units,
\* every width, and the final gap to the wall's inner end
C24_ElevationChainIsPlanChain ==
    pc = "done" =>
        \A n \in FrontWallsWithOpenings :
            ElevChainLengths(all_objects_to_draw[n]) = PlanChainLengths(all_objects_to_draw[n])

\* a front-most wall whose chain is one gap longer by the wall thickness and
\* one final gap shorter than the chain of the floor plan
ElevationChainWithoutFinalGap ==
    /\ pc = "done"
    /\ \E n \in FrontWallsWithOpenings :
          LET ec == ElevChainLengths(all_objects_to_draw[n])
              pl == PlanChainLengths(all_objects_to_draw[n])
          IN /\ Len(pl) = Len(ec) + 1
             /\ ec[1] = pl[1] + GLOBAL_CONFIG.wall_thickness
             /\ \A k \in 2..Len(ec) : ec[k] = pl[k]

(***************************************************************************)
(* The offset levels of the opening dimensions of a floor plan             *)
(***************************************************************************)
\* the pseudo-edges of the openings of wall w along the wall's axis, in
\* their sorted order
AxisEdges(w) ==
    LET horizontal == OGet(WallBounds(floor_config), w).direction \in {"north", "south"}
        sorted == SortedOpenings(w)
    IN [m \in 1..Len(sorted) |-> PseudoEdge(floor_config[sorted[m]], horizontal, m - 1)]

\* the level assign_dimension_offset_levels gives the pseudo-edge of opening i
PackedLevel(w, i) ==
    LET horizontal == OGet(WallBounds(floor_config), w).direction \in {"north", "south"}
    IN assign_dimension_offset_levels(AxisEdges(w), horizontal)[
           EdgeKey(PseudoEdge(floor_config[i], horizontal, 0))]

WidthDimensions ==
    {n \in 1..Len(plan_svg) : /\ plan_svg[n].shape = "opening-dimension"
                               /\ plan_svg[n].part = "width"}

\* C25: the width dimension of every opening is drawn at the level
\* assign_dimension_offset_levels gives the opening's pseudo-edge along the
\* axis of its wall
C25_OpeningLevelsArePackedLevels ==
    OpeningPassDone =>
        \A n \in WidthDimensions :
            plan_svg[n].offset_level = PackedLevel(plan_svg[n].wall, plan_svg[n].origin)

\* the first opening of wall w is given the direction of an axis that is
\* the wall's, and no two openings of w have the same pseudo-edge
SameAxis(w) ==
    LET first == floor_config[SortedOpenings(w)[1]]
    IN (Lower(Get(first, "direction", "north")) \in {"north", "south"})
       <=> (OGet(WallBounds(floor_config), w).direction \in {"north", "south"})

DistinctPseudoEdges(w) ==
    \A m, k \in 1..Len(AxisEdges(w)) :
        m # k => EdgeKey(AxisEdges(w)[m]) # EdgeKey(AxisEdges(w)[k])

\* what holds instead: the levels are the packed levels on every wall whose
\* first opening names the wall's axis and whose pseudo-edges are distinct
C25_PackedLevelsOnSameAxis ==
    OpeningPassDone =>
        \A n \in WidthDimensions :
            (SameAxis(plan_svg[n].wall) /\ DistinctPseudoEdges(plan_svg[n].wall))
                => plan_svg[n].offset_level
                     = PackedLevel(plan_svg[n].wall, plan_svg[n].origin)

\* the two windows of wall V, 30 apart along the wall, on different levels
ApartOpeningsStacked ==
    /\ OpeningPassDone
    /\ \E n, m \in WidthDimensions :
          /\ plan_svg[n].wall = <<"V">> /\ plan_svg[m].wall = <<"V">>
          /\ floor_config[plan_svg[n].origin].y = 10000
          /\ floor_config[plan_svg[m].origin].y = 60000
          /\ plan_svg[n].offset_level # plan_svg[m].offset_level

(***************************************************************************)
(* generate_elevation_view on houses whose floors are listed in any order, *)
(* with or without gaps in the floor numbers, under configurations that    *)
(* give a wall height to some floor numbers only                           *)
(***************************************************************************)
MaxFloors == 3

\* every list of up to MaxFloors different floor numbers
FloorLists ==
    {fl \in UNION {[1..n -> 0..(MaxFloors - 1)] : n \in 1..MaxFloors} :
        \A i, j \in 1..Len(fl) : i # j => fl[i] # fl[j]}

\* a house with a slab on every floor; its plinth height is that of the
\* configuration, spelled out or left to it
FloorHouses ==
    {[plinth |-> pl,
      floors |-> [i \in 1..Len(fl) |->
                    [floor_number |-> fl[i],
                     objects |-> <<[type |-> "floor_slab", name |-> <<"S">>, x |-> 0,
                                    y |-> 0, width |-> 300000, length |-> 300000]>>]]] :
        fl \in FloorLists,
        pl \in {[x |-> 0, y |-> 0, width |-> 300000, length |-> 300000],
                [x |-> 0, y |-> 0, width |-> 300000, length |-> 300000,
                 height |-> HouseGlobalConfig.plinth_height]}}

FloorGlobalConfigs ==
    {[HouseGlobalConfig EXCEPT !.scale_factor = 5, !.floor_heights = fh,
                               !.floor_slab_thickness = st] :
        fh \in PartialMaps(0..(MaxFloors - 1), {100000, 42000}), st \in {0, 8000}}

InitElevFloors ==
    /\ pc = "start"
    /\ GLOBAL_CONFIG \in FloorGlobalConfigs
    /\ view_type \in ViewTypes
    /\ house_config \in FloorHouses
    /\ all_objects_to_draw = <<>>
    /\ svg = <<>>
    /\ output_path = NoPath
    /\ output_dir_exists = TRUE
    /\ files = <<>>
    /\ Idle("elev")

SpecElevFloors == InitElevFloors /\ [][NextElev]_vars

\* the slabs drawn, as places in all_objects_to_draw
DrawnSlabs ==
    {n \in 1..Len(all_objects_to_draw) : all_objects_to_draw[n].type = "floor_slab"}

FloorNumberOf(e) == house_config.floors[e.origin[1]].floor_number

\* C26: the slab of the floor with floor_number n is placed at the height
\* get_floor_z_offset(n) stands for: the plinth height plus, for every floor
\* k < n, the slab thickness and the wall height of floor k
C26_SlabAtFloorZOffset ==
    pc = "done" =>
        \A n \in DrawnSlabs :
            to_meters(GLOBAL_CONFIG, all_objects_to_draw[n].z)
              = get_floor_z_offset(GLOBAL_CONFIG, FloorNumberOf(all_objects_to_draw[n]))

\* the floors are listed as 0, 1, 2, ... and each has its entry in floor_heights
FloorsInOrder ==
    \A i \in 1..Len(house_config.floors) :
        /\ house_config.floors[i].floor_number = i - 1
        /\ (i - 1) \in DOMAIN GLOBAL_CONFIG.floor_heights

\* what holds instead: the two heights agree when the floors are listed in
\* the order of their numbers, from 0 without a gap, every one with a wall
\* height of its own
C26_SlabAtFloorZOffsetInOrder ==
    (pc = "done" /\ FloorsInOrder) =>
        \A n \in DrawnSlabs :
            to_meters(GLOBAL_CONFIG, all_objects_to_draw[n].z)
              = get_floor_z_offset(GLOBAL_CONFIG, FloorNumberOf(all_objects_to_draw[n]))

\* floor 1 listed before floor 0 has its slab on the plinth
UpperFloorOnPlinth ==
    /\ pc = "done"
    /\ \E n \in DrawnSlabs :
          /\ FloorNumberOf(all_objects_to_draw[n]) = 1
          /\ all_objects_to_draw[n].z = GLOBAL_CONFIG.plinth_height
          /\ GLOBAL_CONFIG.floor_slab_thickness > 0

(***************************************************************************)
(* Claims about the length of a clear-span dimension                       *)
(***************************************************************************)
EdgeDimensionPlaces ==
    {n \in 1..Len(plan_svg) : Has(plan_svg[n], "role") /\ plan_svg[n].role = "edge-dimension"}

\* the length of the edge a dimension is drawn for
EdgeLengthOf(d) ==
    Abs(EdgeWithKey(d.edge).x2 - EdgeWithKey(d.edge).x1)
    + Abs(EdgeWithKey(d.edge).y2 - EdgeWithKey(d.edge).y1)

\* the edge is kept from its larger coordinate to its smaller one
DeclaredBackwards(e) == e.x1 > e.x2 \/ e.y1 > e.y2

\* C27: the length a clear-span dimension shows is the length of its edge
\* less twice the wall thickness, whichever endpoint was declared first
C27_ClearSpanLength ==
    pc = "done" =>
        \A n \in EdgeDimensionPlaces :
            plan_svg[n].length = EdgeLengthOf(plan_svg[n]) - 2 * GLOBAL_CONFIG.wall_thickness

\* what holds instead: twice the wall thickness is taken off an edge kept
\* from its smaller coordinate to its larger one and added to one kept the
\* other way round
C27_ClearSpanLengthByDeclaredOrder ==
    pc = "done" =>
        \A n \in EdgeDimensionPlaces :
            plan_svg[n].length
              = IF DeclaredBackwards(EdgeWithKey(plan_svg[n].edge))
                THEN EdgeLengthOf(plan_svg[n]) + 2 * GLOBAL_CONFIG.wall_thickness
                ELSE EdgeLengthOf(plan_svg[n]) - 2 * GLOBAL_CONFIG.wall_thickness

\* the dimension of a wall declared backwards is longer than the wall
BackwardsWallLengthened ==
    /\ pc = "done"
    /\ \E n \in EdgeDimensionPlaces :
          /\ DeclaredBackwards(EdgeWithKey(plan_svg[n].edge))
          /\ plan_svg[n].length > EdgeLengthOf(plan_svg[n])

\* ---------------------------------------------------------------------------
\* the canvas height of an elevation and the objects of the floors
\* ---------------------------------------------------------------------------

\* the shapes drawn for objects and openings
DrawnShapes ==
    {n \in 1..Len(svg) : svg[n].role \in {"object", "opening"}}

\* the smallest SVG y of a drawn shape: the y of a rectangle, the highest
\* corner of a polygon
TopYOf(el) ==
    IF el.shape = "polygon"
    THEN Min(Min(el.points[1][2], el.points[2][2]),
             Min(el.points[3][2], el.points[4][2]))
    ELSE el.y

\* the floor's position in the floor list, for the entry a shape was drawn for
FloorIndexOf(el) == el.origin[1]

\* the Z of the foot of the walls of the floor a shape belongs to
WallFootOf(el) ==
    CurrentZ(GLOBAL_CONFIG, house_config, FloorIndexOf(el))
    + GLOBAL_CONFIG.floor_slab_thickness

\* the default wall height of the floor a shape belongs to
DefaultWallHeightOf(el) ==
    ElevFloorHeight(GLOBAL_CONFIG, house_config.floors[FloorIndexOf(el)].floor_number)

\* the shape's entry reaches no higher than a wall of the floor's default height
NotHigherThanFloorWall(el) ==
    LET e == all_objects_to_draw[EntryOf(el)]
    IN e.z + Max(e.height, Get(e, "height_end", e.height))
           <= WallFootOf(el) + DefaultWallHeightOf(el)

\* C28: the canvas height is at least the top Z of every floor's walls, so
\* every shape that reaches no higher than a wall of its floor's default
\* height is drawn at a non-negative SVG y
C28_DrawnAtNonNegativeY ==
    pc = "done" =>
        \A n \in DrawnShapes :
            NotHigherThanFloorWall(svg[n]) => TopYOf(svg[n]) >= 0

\* what holds instead: such a shape is drawn no higher above the canvas than
\* the slab thicknesses of its own floor and the floors before it, which
\* total_height leaves out
C28_DrawnWithinSlabThicknesses ==
    pc = "done" =>
        \A n \in DrawnShapes :
            NotHigherThanFloorWall(svg[n]) =>
                TopYOf(svg[n]) >= -(FloorIndexOf(svg[n]) * GLOBAL_CONFIG.floor_slab_thickness)

\* a shape of the floor's default wall height drawn above the canvas
DefaultHeightWallAboveCanvas ==
    /\ pc = "done"
    /\ \E n \in DrawnShapes :
          /\ NotHigherThanFloorWall(svg[n])
          /\ TopYOf(svg[n]) < 0

\* ---------------------------------------------------------------------------
\* a sloping standalone wall in the elevation and in the mesh
\* ---------------------------------------------------------------------------

\* the configuration with lengths left in input units, so that the vertices
\* of a mesh can be compared with the heights of the elevation
InputUnitsConfig ==
    [GLOBAL_CONFIG EXCEPT !.units_to_meters_ratio = 1, !.scale_factor = 1]

\* the create_wall call build_floor makes for the standalone wall p
BuiltWall(p) ==
    LET obj == WallObject(p)
        heights == [k \in DOMAIN obj \cap {"height", "height_end"} |-> obj[k]]
    IN create_wall(InputUnitsConfig, obj.start_x, obj.start_y, obj.end_x, obj.end_y,
                   [name |-> obj.name,
                    floor_number |-> house_config.floors[p[1]].floor_number] @@ heights)

\* the height of the mesh above the wall's foot at its declared start
\* (vertices v0, v4) and at its declared end (vertices v2, v6)
MeshHeightAtStart(p) == BuiltWall(p).verts[5][3] - BuiltWall(p).verts[1][3]
MeshHeightAtEnd(p) == BuiltWall(p).verts[7][3] - BuiltWall(p).verts[3][3]

\* where the view shows the plan coordinate c of a wall running across it
ProjectedPosition(c) ==
    world_to_svg_x(view_type, ViewWidth(view_type, house_config), c, 0)

\* the plan coordinate along the view of a wall's declared start and end
DeclaredStart(p) ==
    IF view_type \in {"front", "back"} THEN WallObject(p).start_x
    ELSE WallObject(p).start_y

DeclaredEnd(p) ==
    IF view_type \in {"front", "back"} THEN WallObject(p).end_x
    ELSE WallObject(p).end_y

\* the height of the polygon's vertical edge drawn at SVG x = sx
DrawnHeightAt(el, sx) ==
    IF el.points[1][1] = sx THEN LeftEdgeHeight(el)
    ELSE IF el.points[4][1] = sx THEN RightEdgeHeight(el)
    ELSE -1

\* the sloping standalone walls the view shows
SlopingWallsShown ==
    {p \in StandaloneWalls :
        /\ RunsAcrossView(WallObject(p))
        /\ DeclaredHeight(p) # DeclaredHeightEnd(p)
        /\ BuiltWall(p).object = "mesh"}

\* C29: a sloping standalone wall has its `height` at its declared start and
\* its `height_end` at its declared end in the elevation exactly as in the
\* mesh, for either order of declaring the end points and in all four views
C29_SlopeAtDeclaredEnds ==
    pc = "done" =>
        \A p \in SlopingWallsShown : \A n \in ShapesOf(p) :
            /\ DrawnHeightAt(svg[n], ProjectedPosition(DeclaredStart(p))) = MeshHeightAtStart(p)
            /\ DrawnHeightAt(svg[n], ProjectedPosition(DeclaredEnd(p))) = MeshHeightAtEnd(p)

\* what holds instead: the elevation puts `height` at the end with the smaller
\* plan coordinate and `height_end` at the end with the larger one, which is
\* the mesh's slope only for a wall declared from its smaller coordinate
C29_SlopeBySmallerCoordinate ==
    pc = "done" =>
        \A p \in SlopingWallsShown : \A n \in ShapesOf(p) :
            LET lo == Min(DeclaredStart(p), DeclaredEnd(p))
                hi == Max(DeclaredStart(p), DeclaredEnd(p))
            IN /\ DrawnHeightAt(svg[n], ProjectedPosition(lo)) = MeshHeightAtStart(p)
               /\ DrawnHeightAt(svg[n], ProjectedPosition(hi)) = MeshHeightAtEnd(p)
               /\ MeshHeightAtStart(p) = DeclaredHeight(p)
               /\ MeshHeightAtEnd(p) = DeclaredHeightEnd(p)

\* a wall declared from its larger coordinate, drawn with the mesh's start
\* height at its declared end
BackwardsWallSlopeExchanged ==
    /\ pc = "done"
    /\ \E p \in SlopingWallsShown : \E n \in ShapesOf(p) :
          /\ DeclaredStart(p) > DeclaredEnd(p)
          /\ DrawnHeightAt(svg[n], ProjectedPosition(DeclaredEnd(p))) = MeshHeightAtStart(p)
          /\ DrawnHeightAt(svg[n], ProjectedPosition(DeclaredStart(p))) = MeshHeightAtEnd(p)

(***************************************************************************)
(* The wall of a door or window for the three readers of a floor's         *)
(* 'objects': build_floor with apply_openings_to_walls, the opening        *)
(* dimensions of the floor plan, and the elevation.  A wall is named as    *)
(* build_floor names it: '<room>_<Direction>' for a side of a room, its    *)
(* 'name' for a standalone wall.                                           *)
(***************************************************************************)
MaxOpeningObjects == 3

\* a room of four walls, a room of two, and a wall along x
OpeningRooms ==
    {[type |-> "room", name |-> <<"A">>, x |-> 0, y |-> 0, width |-> 100000,
      length |-> 100000, walls |-> <<"north", "south", "east", "west">>],
     [type |-> "room", name |-> <<"B">>, x |-> 0, y |-> 100000, width |-> 100000,
      length |-> 100000, walls |-> <<"North", "West">>]}

OpeningWalls ==
    {[type |-> "wall", name |-> <<"W1">>, start_x |-> 0, start_y |-> 50000,
      end_x |-> 100000, end_y |-> 50000]}

\* doors and windows naming their wall by room and direction (a declared side
\* and one the room leaves out), by 'wall' (a standalone wall, a side of a
\* room, no wall at all), by 'wall_name', and by room and 'wall' at once
OpeningDoors ==
    {[type |-> "door", room |-> <<"A">>, direction |-> "north", x |-> 20000,
      y |-> 0, width |-> 30000, height |-> 70000],
     [type |-> "window", room |-> <<"B">>, direction |-> "south", x |-> 20000,
      y |-> 200000, width |-> 20000, height |-> 30000],
     [type |-> "window", wall |-> <<"W1">>, x |-> 10000, y |-> 50000,
      width |-> 20000, height |-> 30000],
     [type |-> "window", wall |-> <<"A", "North">>, x |-> 60000, y |-> 0,
      width |-> 20000, height |-> 30000],
     [type |-> "door", wall |-> <<"Nowhere">>, x |-> 10000, y |-> 10000,
      width |-> 30000, height |-> 70000],
     [type |-> "window", wall_name |-> <<"W1">>, x |-> 50000, y |-> 50000,
      width |-> 20000, height |-> 30000],
     [type |-> "door", room |-> <<"A">>, direction |-> "north", wall |-> <<"W1">>,
      x |-> 70000, y |-> 50000, width |-> 20000, height |-> 70000]}

OpeningObjects == OpeningRooms \cup OpeningWalls \cup OpeningDoors

\* houses of one floor
OpeningHouses ==
    {House(objs, Len(objs)) :
        objs \in UNION {[1..n -> OpeningObjects] : n \in 1..MaxOpeningObjects}}

InitElevOpenings ==
    /\ pc = "start"
    /\ GLOBAL_CONFIG = HouseGlobalConfig
    /\ view_type \in ViewTypes
    /\ house_config \in OpeningHouses
    /\ all_objects_to_draw = <<>>
    /\ svg = <<>>
    /\ output_path = NoPath
    /\ output_dir_exists = TRUE
    /\ files = <<>>
    /\ Idle("elev")

SpecElevOpenings == InitElevOpenings /\ [][NextElev]_vars

\* build_floor: the wall_name handed to create_door and create_window,
\* '<room>_<Direction>' when the opening has a room, else its 'wall'
BuildWallName(o) ==
    LET direction == Get(o, "direction", "north")
        room == Get(o, "room", <<>>)
    IN IF room # <<>> THEN room \o <<Capitalize(Lower(direction))>>
       ELSE Get(o, "wall", NoneName)

\* the names of the walls build_floor has created when it applies the
\* openings: the sides create_room makes for a room, and the standalone
\* walls create_wall does not refuse
BuiltWallNames(objs) ==
    {objs[i].name \o <<Capitalize(d)>> :
        <<i, d>> \in {q \in (1..Len(objs)) \X {"north", "south", "east", "west"} :
                        /\ objs[q[1]].type = "room"
                        /\ q[2] \in RoomWalls(objs[q[1]])}}
    \cup {Get(objs[i], "name", <<"Wall">>) :
            i \in {j \in 1..Len(objs) :
                     /\ objs[j].type = "wall"
                     /\ ~(objs[j].start_x = objs[j].end_x /\ objs[j].start_y = objs[j].end_y)}}

\* apply_openings_to_walls: the wall the opening is cut from, None when the
\* opening has no target wall or no object has the target's name
CutWall(objs, o) ==
    IF BuildWallName(o) # NoneName /\ BuildWallName(o) \in BuiltWallNames(objs)
    THEN BuildWallName(o)
    ELSE NoneName

\* the floor plan: the wall whose dimension chain takes the opening
DimensionedWall(objs, o) ==
    IF PlanWallName(o) # NoneName /\ PlanWallName(o) \in OKeys(WallBounds(objs))
    THEN PlanWallName(o)
    ELSE NoneName

\* the objects of the only floor of the house, and its doors and windows
OnlyFloorObjects == house_config.floors[1].objects

DoorsAndWindows ==
    {i \in 1..Len(OnlyFloorObjects) : OnlyFloorObjects[i].type \in {"door", "window"}}

\* the walls the view shows
WallsShown ==
    {n \in 1..Len(all_objects_to_draw) : all_objects_to_draw[n].type = "wall"}

\* the name build_floor gives the wall an entry of the elevation shows
EntryWallName(e) ==
    LET obj == OnlyFloorObjects[e.origin[2]]
    IN IF e.origin[3] > 0
       THEN obj.name \o <<Capitalize(Lower(obj.walls[e.origin[3]]))>>
       ELSE Get(obj, "name", <<"Wall">>)

\* the elevation draws opening o on the wall of entry e
DrawnOn(e, o) == \E k \in 1..Len(e.openings) : e.openings[k] = o

\* C30: every door or window is resolved alike by build_floor, the floor plan
\* and the elevation: the floor plan dimensions it on the wall build_floor
\* cuts it from, or on none when build_floor cuts none, and a wall the view
\* shows carries exactly the openings build_floor cuts from it
C30_OpeningResolvedAlike ==
    pc = "done" =>
        \A i \in DoorsAndWindows :
            LET o == OnlyFloorObjects[i]
            IN /\ DimensionedWall(OnlyFloorObjects, o) = CutWall(OnlyFloorObjects, o)
               /\ \A n \in WallsShown :
                     DrawnOn(all_objects_to_draw[n], o)
                     <=> CutWall(OnlyFloorObjects, o) = EntryWallName(all_objects_to_draw[n])

\* the opening names its wall in one way only: by a room and a side the room
\* declares, or by the 'wall' of a standalone wall
NamedPlainly(o) ==
    \/ /\ Has(o, "room") /\ ~Has(o, "wall") /\ ~Has(o, "wall_name")
       /\ CutWall(OnlyFloorObjects, o) # NoneName
    \/ /\ ~Has(o, "room") /\ Has(o, "wall") /\ ~Has(o, "wall_name")
       /\ \E j \in 1..Len(OnlyFloorObjects) :
             /\ OnlyFloorObjects[j].type = "wall"
             /\ OnlyFloorObjects[j].name = o.wall

\* what holds instead: the three agree on the openings that name their wall
\* in one way only
C30_PlainOpeningResolvedAlike ==
    pc = "done" =>
        \A i \in DoorsAndWindows :
            LET o == OnlyFloorObjects[i]
            IN NamedPlainly(o) =>
                 /\ DimensionedWall(OnlyFloorObjects, o) = CutWall(OnlyFloorObjects, o)
                 /\ CutWall(OnlyFloorObjects, o) # NoneName
                 /\ \A n \in WallsShown :
                       DrawnOn(all_objects_to_draw[n], o)
                       <=> CutWall(OnlyFloorObjects, o) = EntryWallName(all_objects_to_draw[n])

\* an opening with a room and a 'wall': cut from the room's wall and drawn on
\* it, dimensioned on the standalone wall
RoomAndWallResolvedApart ==
    /\ pc = "done"
    /\ \E i \in DoorsAndWindows : \E n \in WallsShown :
          LET o == OnlyFloorObjects[i]
          IN /\ Has(o, "room") /\ Has(o, "wall")
             /\ CutWall(OnlyFloorObjects, o) = <<"A", "North">>
             /\ DrawnOn(all_objects_to_draw[n], o)
             /\ DimensionedWall(OnlyFloorObjects, o) = <<"W1">>

\* an opening on a side its room leaves out: dimensioned in the floor plan,
\* cut from no wall
UndeclaredSideDimensioned ==
    /\ pc = "done"
    /\ \E i \in DoorsAndWindows :
          LET o == OnlyFloorObjects[i]
          IN /\ Has(o, "room")
             /\ CutWall(OnlyFloorObjects, o) = NoneName
             /\ DimensionedWall(OnlyFloorObjects, o) # NoneName

\* an opening that names a side of a room by 'wall': cut from the wall, not
\* drawn on it in the view that shows the wall
SideNamedByWallNotDrawn ==
    /\ pc = "done"
    /\ \E i \in DoorsAndWindows : \E n \in WallsShown :
          LET o == OnlyFloorObjects[i]
          IN /\ ~Has(o, "room")
             /\ CutWall(OnlyFloorObjects, o) = EntryWallName(all_objects_to_draw[n])
             /\ all_objects_to_draw[n].origin[3] > 0
             /\ ~DrawnOn(all_objects_to_draw[n], o)

\* an opening that names its wall by 'wall_name': drawn in the elevation,
\* cut from no wall
WallNameOnlyDrawn ==
    /\ pc = "done"
    /\ \E i \in DoorsAndWindows : \E n \in WallsShown :
          LET o == OnlyFloorObjects[i]
          IN /\ Has(o, "wall_name")
             /\ DrawnOn(all_objects_to_draw[n], o)
             /\ CutWall(OnlyFloorObjects, o) = NoneName
             /\ DimensionedWall(OnlyFloorObjects, o) = NoneName

\* an opening named plainly, drawn on the wall it is cut from
PlainOpeningDrawn ==
    /\ pc = "done"
    /\ \E i \in DoorsAndWindows : \E n \in WallsShown :
          /\ NamedPlainly(OnlyFloorObjects[i])
          /\ DrawnOn(all_objects_to_draw[n], OnlyFloorObjects[i])
====
